---- MODULE Spec2Model ----
(***************************************************************************)
(* Model of autowebprompt's task execution engine: the two-tier retry loop *)
(* of run_automation (engine/runner.py), the per-attempt timeout guard,    *)
(* the process-wide shutdown event and the completion records written by   *)
(* CompletionLogger (engine/completion_logger.py).                         *)
(*                                                                         *)
(* Every value of pc is a point where the coroutine of run_automation is   *)
(* suspended in an await (or, for "top" and "phase2", between two awaits), *)
(* so the timeout guard, a signal handler and the passage of time          *)
(* interleave exactly at these points.                                     *)
(***************************************************************************)
EXTENDS Integers, Sequences, FiniteSets, TLC

\* ------------------------------------------------------------------ bounds
MaxAgentAttempts == 2      \* largest configured retry.max_agent_attempts
MaxTotalAttempts == 3      \* largest configured retry.max_total_attempts
MaxSecPerTask    == 1      \* largest configured max_sec_per_task
MaxSecPerAttempt == 1      \* largest configured retry.max_sec_per_attempt
MaxTime          == 2      \* horizon of the wall clock, in ticks
MaxFiles         == 2      \* most artifacts one download returns
MaxLoggedTasks   == 1      \* most tasks closed in one CompletionLogger
MaxLoggedPrompts == 1      \* most prompts ended within one task
MaxPrompts       == 2      \* most prompts configured for a task
MaxArticles      == 1      \* most response articles on the page
MaxTexts         == 1      \* distinct response texts longer than the floor
MaxWaitPerPrompt == 19     \* configured max_wait_per_prompt_seconds
MaxCheckInterval == 2      \* configured check_interval_seconds
MaxShortWait     == 9      \* max_wait_per_prompt_seconds of a short wait
MaxClosedTasks   == 2      \* most tasks closed in a logger that is used again
MaxPages         == 3      \* most pages open in a Chrome the run attaches to
MaxLaunches      == 3      \* most attempts that launch a browser
MaxTasks         == 3      \* most tasks handed to run_all_tasks
MaxTaskTimeout   == 1      \* largest timeout of a task, in seconds

\* ------------------------------------------------------- agents/base.py
SUCCESS           == "success"
TIMEOUT           == "timeout"
PROMPT_FAILED     == "prompt_failed"
DOWNLOAD_FAILED   == "download_failed"
FILE_CORRUPTED    == "file_corrupted"
MISSING_SHEETS    == "missing_sheets"
NAVIGATION_FAILED == "navigation_failed"
AUTH_FAILED       == "auth_failed"
UPLOAD_FAILED     == "upload_failed"
RATE_LIMITED      == "rate_limited"
UNKNOWN           == "unknown"

TaskStatus ==
    { SUCCESS, TIMEOUT, PROMPT_FAILED, DOWNLOAD_FAILED, FILE_CORRUPTED,
      MISSING_SHEETS, NAVIGATION_FAILED, AUTH_FAILED, UPLOAD_FAILED,
      RATE_LIMITED, UNKNOWN }

AGENT_STATUSES ==
    { SUCCESS, TIMEOUT, PROMPT_FAILED, DOWNLOAD_FAILED, FILE_CORRUPTED,
      MISSING_SHEETS }

\* variant of PIPELINE_STATUSES: UNKNOWN was left out of the set
PIPELINE_STATUSES_NoUnknown ==
    { NAVIGATION_FAILED, AUTH_FAILED, UPLOAD_FAILED, RATE_LIMITED }

PIPELINE_STATUSES ==
    { NAVIGATION_FAILED, AUTH_FAILED, UPLOAD_FAILED, RATE_LIMITED, UNKNOWN }

AgentState ==
    { "running", "ready", "rate_limited", "auth_required", "error", "unknown" }

\* ------------------------------------------------------------------ state
VARIABLES
    max_agent_attempts,   \* retry_config["max_agent_attempts"]
    max_total_attempts,   \* retry_config["max_total_attempts"]
    max_sec_per_task,     \* retry_config["max_sec_per_task"], 0 = unlimited
    max_sec_per_attempt,  \* retry_config["max_sec_per_attempt"]
    no_hold,              \* "--no-hold" in sys.argv
    pc,                   \* position of the coroutine of run_automation
    agent_attempts,
    total_attempts,
    agent_json_paths,     \* sequence of indices into session_files
    task_success,
    now,                  \* time.time(), in ticks since task_wall_start
    shutdown_event,       \* the module-level asyncio.Event
    attempt_timed_out,
    guard_task,           \* "none" | "pending" | "finished" | "fired" | "cancelled"
    guard_deadline,       \* tick at which the guard's sleep ends
    completion_logger,    \* 0 = None, else index of its session file
    current_task,         \* completion_logger.current_task (NoTask = None)
    session_files,        \* the completion JSON files on disk
    session_open,         \* playwright context/browser of the attempt is open
    attempt,              \* history: the attempt in progress, or the last one
    hist,                 \* history: how many attempts started, passed Phase 1, ...
    ext_signalled,        \* history: _handle_signal has run
    halt_reason,          \* which loop-top branch broke out of the loop
    session_data,         \* CompletionLogger.session_data["tasks"], in memory
    current_prompt,       \* CompletionLogger.current_prompt (NoPrompt = None)
    agent_mode,           \* chatgpt_web.agent_mode
    max_wait_per_prompt,  \* chatgpt_web.max_wait_per_prompt_seconds
    check_interval,       \* chatgpt_web.check_interval_seconds
    prompts,              \* config["prompts"]
    apc,                  \* position of the coroutine of process_all_prompts
    prompt_number,        \* i of the loop of process_all_prompts
    messages,             \* self.messages, one pair per answered prompt
    pap_result,           \* what process_all_prompts returned
    self_baseline_article_count,  \* self._baseline_article_count
    self_baseline_set,            \* self._baseline_set
    baseline_article_count,       \* locals of wait_for_response ...
    polls,                \* iterations of the start loop that ended in its sleep
    generation_started,
    elapsed,              \* asyncio loop time - start_time, in seconds
    stable_count,
    last_response_text,
    last_article_count,
    final_response,
    response,             \* what wait_for_response returned
    outcome,              \* history: which return of wait_for_response was taken
    started_at,           \* history: elapsed when generation start was observed
    reset_from,           \* history: the count the last busy sample wiped, or -1
    detector,             \* what the page shows: "free", "faulty", or "steady" once started
    script,               \* history: samples of the scripted scenario matched
    provider,             \* provider_key: "chatgpt_web" or "claude_web"
    query_failed,         \* history: the last indicator query of a sample raised
    confirm_polls,        \* iterations of the send-confirmation loop that ended
    already_in_conversation,  \* "/c/" in url_before
    confirmed,            \* history: the confirmation submit_prompt observed
    submit_result,        \* what the last submit_prompt returned
    submitted,            \* history: the prompts submit_prompt was called with
    saw_running,          \* local of ClaudeWebAgent.wait_for_response
    ready_samples,        \* history: READY results of get_state in a row, up to 2
    upload_to_cloud,      \* config.get("upload_to_cloud", False)
    p1pc,                 \* position of run_automation within Phase 1
    page,                 \* what the site serves to the browser
    nav_result,           \* what navigate_to_new_chat returned
    auth_state,           \* state, the last get_state of Phase 1
    login_elapsed,        \* seconds of the login wait so far
    login_clock,          \* seconds since the login wait began, by the clock
    auth_saved,           \* save_auth_state was called, and how it ended
    phase1_status,        \* status of the PipelineError raised, or "passed"
    files_downloaded,     \* downloaded_files of run_automation
    excel_files,          \* the spreadsheets among them
    validated,            \* history: the excel_files validated so far
    val_status,           \* status the attempt is about to be closed with
    renamed,              \* history: rename_solution_file has run
    tasks,                \* len(tasks) of run_all_tasks
    start_index,
    end_index,            \* NoEnd = None
    continue_on_failure,
    fetch_from_db,        \* BatchRunner.fetch_from_db
    timeout,              \* timeout of the tasks, 0 = None
    handler_installed,    \* main has registered _signal_handler
    bpc,                  \* position of run_all_tasks and run_task
    task_index,           \* start_index + i of the loop of run_all_tasks
    results,              \* the counters of results
    current_process,      \* the subprocess of the task, "none" if there is none
    stdout_open,          \* the subprocess holds its output pipe open
    waited,               \* seconds wait(timeout) has waited so far
    run_log,              \* history: how each call of run_task ended
    cdp_mode,             \* the browser is a Chrome reached over CDP
    ctx_pages,            \* open pages of the context, the attempt's own apart
    own_page,             \* the page of the attempt: "none" or "open"
    gpc,                  \* where the attempt is with its browser
    close_failed,         \* stale pages whose close() raised in this attempt
    stale_todo,           \* pages the closing loop has still to visit
    stale_closed,         \* history: pages the closing loop closed in this attempt
    browser_attempts,     \* attempts that launched a browser so far
    template,             \* the template configuration
    task_cfg,             \* the configuration of the task
    runner_provider,      \* BatchRunner.provider
    merged,               \* the merged configuration
    mpc                   \* which merge function has run

vars ==
    << max_agent_attempts, max_total_attempts, max_sec_per_task,
       max_sec_per_attempt, no_hold, pc, agent_attempts,
       total_attempts, agent_json_paths, task_success, now, shutdown_event,
       attempt_timed_out, guard_task, guard_deadline, completion_logger,
       current_task, session_files, session_open, attempt, hist,
       ext_signalled, halt_reason, session_data, current_prompt,
       agent_mode, max_wait_per_prompt, check_interval, prompts, apc,
       prompt_number, messages, pap_result, self_baseline_article_count,
       self_baseline_set, baseline_article_count, polls, generation_started,
       elapsed, stable_count, last_response_text, last_article_count,
       final_response, response, outcome, started_at, reset_from, detector,
       script, provider, query_failed, confirm_polls,
       already_in_conversation, confirmed, submit_result, submitted,
       saw_running, ready_samples, upload_to_cloud, p1pc, page, nav_result, auth_state,
       login_elapsed, login_clock, auth_saved, phase1_status,
       files_downloaded, excel_files,
       validated, val_status, renamed, tasks, start_index, end_index,
       continue_on_failure, fetch_from_db, timeout, handler_installed, bpc,
       task_index, results, current_process, stdout_open, waited, run_log,
       cdp_mode, ctx_pages, own_page, gpc, close_failed, stale_todo,
       stale_closed, browser_attempts, template, task_cfg, runner_provider, merged, mpc >>

configVars ==
    << max_agent_attempts, max_total_attempts, max_sec_per_task,
       max_sec_per_attempt, no_hold, upload_to_cloud >>

\* the configuration create_agent and the agent read
agentConfig ==
    << agent_mode, max_wait_per_prompt, check_interval, prompts, detector,
       provider >>

\* the fields of a ChatGPTWebAgent and the locals of process_all_prompts
promptVars ==
    << apc, prompt_number, messages, pap_result,
       self_baseline_article_count, self_baseline_set >>

\* the locals of wait_for_response, its return value and its history
waitVars ==
    << baseline_article_count, polls, generation_started, elapsed,
       stable_count, last_response_text, last_article_count, final_response,
       response, outcome, started_at, reset_from, script, query_failed >>

\* the locals of submit_prompt with its history, and of Claude's wait
submitVars ==
    << confirm_polls, already_in_conversation, confirmed, submit_result,
       submitted, saw_running, ready_samples >>

agentVars == << agentConfig, promptVars, waitVars, submitVars >>

\* Phase 1 of an attempt, looked into
phase1Vars ==
    << p1pc, page, nav_result, auth_state, login_elapsed, login_clock,
       auth_saved, phase1_status >>

\* the locals of the download and validation steps of Phase 2, looked into
downloadVars ==
    << files_downloaded, excel_files, validated, val_status, renamed >>

\* the arguments and locals of run_all_tasks and run_task (engine/batch.py)
batchConfig ==
    << tasks, start_index, end_index, continue_on_failure, fetch_from_db,
       timeout, handler_installed >>

batchVars ==
    << batchConfig, bpc, task_index, results, current_process, stdout_open,
       waited, run_log >>

\* the state of the parts of the program that have a specification of their
\* own
\* the pages of the browser context over the attempts (runner.py 383-394)
pageVars ==
    << cdp_mode, ctx_pages, own_page, gpc, close_failed, stale_todo,
       stale_closed, browser_attempts >>

\* the arguments and the result of the configuration merge
mergeVars == << template, task_cfg, runner_provider, merged, mpc >>

extraVars == << pageVars, mergeVars >>

sideVars == << phase1Vars, downloadVars, batchVars, extraVars >>

\* the fields of a CompletionLogger that run_automation never reads
loggerVars == << session_data, current_prompt >>

\* the CompletionLogger of the attempt and the files written so far
completionVars ==
    << completion_logger, current_task, session_files, session_data,
       current_prompt >>

\* the locals of run_automation that belong to the loop, not to the logger
loopVars ==
    << pc, agent_attempts, total_attempts, agent_json_paths, task_success,
       now, shutdown_event, attempt_timed_out, guard_task, guard_deadline,
       session_open, attempt, hist, ext_signalled, halt_reason >>

task_wall_start == 0

\* runner.py 127: the default reason of mark_json_deprecated
SUPERSEDED == "Superseded by later attempt"

\* None, for current_task and for the JSON null of a record's fields
NoTask ==
    [attempt_number |-> 0, task_status |-> "none", deprecated |-> FALSE,
     deprecated_reason |-> "none", prompts |-> << >>]

NoPrompt == [success |-> "none"]

Min(a, b) == IF a <= b THEN a ELSE b

Last(s) == s[Len(s)]

\* history updates
LogSet(a, field, value) == [a EXCEPT ![field] = value]

LogCharge(a) == [a EXCEPT !.charges = @ + 1]

Count(h, field) == [h EXCEPT ![field] = @ + 1]

NewAttempt ==
    [passed |-> FALSE, status |-> "none", charges |-> 0, timed_out |-> FALSE,
     ended |-> FALSE]

\* runner.py 341-345 and the module-level shutdown_event: the locals of
\* run_automation when the retry loop is entered
LoopInit ==
    /\ pc = "top"
    /\ agent_attempts = 0
    /\ total_attempts = 0
    /\ agent_json_paths = << >>
    /\ task_success = FALSE
    /\ now = task_wall_start
    /\ shutdown_event = FALSE
    /\ attempt_timed_out = FALSE
    /\ guard_task = "none"
    /\ guard_deadline = 0
    /\ session_open = FALSE
    /\ attempt = [NewAttempt EXCEPT !.ended = TRUE]
    /\ hist = [started |-> 0, passed |-> 0, agent_failed |-> 0,
               pipeline_failed |-> 0]
    /\ ext_signalled = FALSE
    /\ halt_reason = "none"

\* run_automation has not started an attempt; one configuration
LoopIdle ==
    /\ max_agent_attempts = MaxAgentAttempts
    /\ max_total_attempts = MaxTotalAttempts
    /\ max_sec_per_task = 0
    /\ max_sec_per_attempt = 0
    /\ no_hold = FALSE
    /\ upload_to_cloud = FALSE
    /\ LoopInit

\* no CompletionLogger has been constructed
NoLogger ==
    /\ completion_logger = 0
    /\ current_task = NoTask
    /\ session_files = << >>
    /\ session_data = << >>
    /\ current_prompt = NoPrompt

\* ------------------------------------------------------- agents/chatgpt.py
required_stable == 5       \* consecutive stable samples that end the wait
START_POLLS     == 60      \* iterations of the generation-start loop
SETTLE_MS       == 5000    \* wait before the first start poll
POLL_MS         == 2000    \* wait between two start polls
MIN_LENGTH      == 50      \* a response must be longer than this

\* page.wait_for_timeout takes milliseconds, the loop clock counts seconds
Seconds(ms) == ms \div 1000

\* Response texts, by identity and length.  None is Python's None, EmptyText
\* the empty string.
None      == [id |-> 0, len |-> 0]
EmptyText == [id |-> 1, len |-> 0]
ResultABC == [id |-> 2, len |-> 10]
FloorText == [id |-> 3, len |-> MIN_LENGTH]
LongText(i) == [id |-> 3 + i, len |-> MIN_LENGTH + 1]

\* chatgpt.py 616-640: what _extract_last_response can return, None or a
\* stripped non-empty text
PageTexts == { None, ResultABC, FloorText } \cup { LongText(i) : i \in 1..MaxTexts }

\* chatgpt.py 63-76 and the locals of a wait_for_response not yet called
NoWait ==
    /\ baseline_article_count = 0
    /\ polls = 0
    /\ generation_started = FALSE
    /\ elapsed = 0
    /\ stable_count = 0
    /\ last_response_text = EmptyText
    /\ last_article_count = 0
    /\ final_response = None
    /\ response = None
    /\ outcome = "none"
    /\ started_at = 0
    /\ reset_from = -1
    /\ script = 0
    /\ query_failed = FALSE

\* submit_prompt has not been called
NoSubmit ==
    /\ confirm_polls = 0
    /\ already_in_conversation = FALSE
    /\ confirmed = "none"
    /\ submit_result = "none"
    /\ submitted = << >>
    /\ saw_running = FALSE
    /\ ready_samples = 0

\* chatgpt.py 63-76: a ChatGPTWebAgent right after construction
NewAgent ==
    /\ apc = "constructed"
    /\ prompt_number = 0
    /\ messages = << >>
    /\ pap_result = "none"
    /\ self_baseline_article_count = 0
    /\ self_baseline_set = FALSE
    /\ NoWait
    /\ NoSubmit

\* the agent is not looked into: process_all_prompts is a single step of
\* the retry loop
NoAgent ==
    /\ agent_mode = TRUE
    /\ max_wait_per_prompt = MaxWaitPerPrompt
    /\ check_interval = MaxCheckInterval
    /\ prompts = << >>
    /\ detector = "free"
    /\ provider = "chatgpt_web"
    /\ NewAgent

\* Phase 1 is a single step of the retry loop
NoPhase1 ==
    /\ p1pc = "idle"
    /\ page = "none"
    /\ nav_result = "none"
    /\ auth_state = "none"
    /\ login_elapsed = 0
    /\ login_clock = 0
    /\ auth_saved = "none"
    /\ phase1_status = "none"

\* download and validation are a single step of the retry loop
NoDownload ==
    /\ files_downloaded = << >>
    /\ excel_files = << >>
    /\ validated = << >>
    /\ val_status = "none"
    /\ renamed = FALSE

NoEnd == -1

\* no batch is run
NoBatch ==
    /\ tasks = 0
    /\ start_index = 0
    /\ end_index = NoEnd
    /\ continue_on_failure = TRUE
    /\ fetch_from_db = FALSE
    /\ timeout = 0
    /\ handler_installed = FALSE
    /\ bpc = "idle"
    /\ task_index = 0
    /\ results = [total |-> 0, succeeded |-> 0, failed |-> 0, skipped |-> 0]
    /\ current_process = "none"
    /\ stdout_open = FALSE
    /\ waited = 0
    /\ run_log = << >>

\* no browser context is looked into
NoPages ==
    /\ cdp_mode = FALSE
    /\ ctx_pages = 0
    /\ own_page = "none"
    /\ gpc = "idle"
    /\ close_failed = 0
    /\ stale_todo = 0
    /\ stale_closed = 0
    /\ browser_attempts = 0

\* no configuration is merged
NoMerge ==
    /\ template = "none"
    /\ task_cfg = "none"
    /\ runner_provider = "claude"
    /\ merged = "none"
    /\ mpc = "idle"

NoExtra == NoPages /\ NoMerge

NoSide == NoPhase1 /\ NoDownload /\ NoBatch /\ NoExtra

\* the retry loop of one task under its default configuration
Init ==
    /\ max_agent_attempts \in 0..MaxAgentAttempts
    /\ max_total_attempts \in 0..MaxTotalAttempts
    /\ max_sec_per_task \in {0, MaxSecPerTask}
    /\ max_sec_per_attempt \in {0, MaxSecPerAttempt}
    /\ no_hold \in BOOLEAN
    /\ upload_to_cloud = FALSE
    /\ LoopInit
    /\ NoLogger
    /\ NoAgent
    /\ NoSide


\* --------------------------------------------------------- loop top
\* variant of HaltCheck: the agent-attempt bound is not tested
HaltCheck_NoAgentBound ==
    IF total_attempts >= max_total_attempts THEN "total"
    ELSE IF max_sec_per_task > 0 /\ (now - task_wall_start) >= max_sec_per_task
         THEN "wall"
    ELSE IF shutdown_event THEN "shutdown"
    ELSE "none"

\* runner.py 347-360: the first termination condition that holds, in the
\* order the code tests them; "none" when the loop goes on
HaltCheck ==
    IF total_attempts >= max_total_attempts THEN "total"
    ELSE IF agent_attempts >= max_agent_attempts THEN "agent"
    ELSE IF max_sec_per_task > 0 /\ (now - task_wall_start) >= max_sec_per_task
         THEN "wall"
    ELSE IF shutdown_event THEN "shutdown"
    ELSE "none"

\* runner.py 349-360: a termination condition holds, break
LoopHalt ==
    /\ pc = "top"
    /\ HaltCheck # "none"
    /\ halt_reason' = HaltCheck
    /\ pc' = "post"
    /\ UNCHANGED << configVars, sideVars, agentVars, loggerVars, agent_attempts, total_attempts,
                    agent_json_paths, task_success, now, shutdown_event,
                    attempt_timed_out, guard_task, guard_deadline,
                    completion_logger, current_task, session_files,
                    session_open, attempt, ext_signalled, hist >>

\* runner.py 362-373: total_attempts += 1 and the per-attempt locals reset.
\* The guard and attempt_timed_out of the previous attempt are dead here (the
\* guard was cancelled, the flag is reassigned at 492 before its next read),
\* so they are reset with the other locals.
StartAttempt ==
    /\ pc = "top"
    /\ HaltCheck = "none"
    /\ total_attempts' = total_attempts + 1
    /\ completion_logger' = 0
    /\ current_task' = NoTask
    /\ attempt' = NewAttempt
    /\ hist' = Count(hist, "started")
    /\ attempt_timed_out' = FALSE
    /\ guard_task' = "none"
    /\ guard_deadline' = 0
    /\ pc' = "launch"
    /\ UNCHANGED << configVars, sideVars, agentVars, loggerVars, agent_attempts, agent_json_paths,
                    task_success, now, shutdown_event, session_files,
                    session_open, ext_signalled, halt_reason >>

\* --------------------------------------------------------- Phase 1
\* runner.py 462-472: except PipelineError closes the browser and playwright,
\* re-raises, and the outer handler goes on to the back-off sleep; neither
\* agent_attempts nor any completion record is touched
PipelineFailure_Charged(status) ==
    /\ session_open' = FALSE
    /\ agent_attempts' = agent_attempts + 1
    /\ attempt' =
          LogSet(LogSet(LogCharge(attempt), "status", status), "ended", TRUE)
    /\ hist' = Count(hist, "pipeline_failed")
    /\ pc' = "pipeline_sleep"
    /\ UNCHANGED << configVars, sideVars, agentVars, loggerVars, total_attempts, agent_json_paths,
                    task_success, now, shutdown_event, attempt_timed_out,
                    guard_task, guard_deadline, completion_logger,
                    current_task, session_files, ext_signalled, halt_reason >>

PipelineFailure(status) ==
    /\ session_open' = FALSE
    /\ attempt' =
          LogSet(LogSet(attempt, "status", status), "ended", TRUE)
    /\ hist' = Count(hist, "pipeline_failed")
    /\ pc' = "pipeline_sleep"
    /\ UNCHANGED << configVars, sideVars, agentVars, loggerVars, agent_attempts, total_attempts,
                    agent_json_paths, task_success, now, shutdown_event,
                    attempt_timed_out, guard_task, guard_deadline,
                    completion_logger, current_task, session_files,
                    ext_signalled, halt_reason >>

Phase1Step(next) ==
    /\ pc' = next
    /\ UNCHANGED << configVars, sideVars, agentVars, loggerVars, agent_attempts, total_attempts,
                    agent_json_paths, task_success, now, shutdown_event,
                    attempt_timed_out, guard_task, guard_deadline,
                    completion_logger, current_task, session_files,
                    attempt, ext_signalled, halt_reason, hist >>

\* runner.py 379-394, manager.py 143-208: launch_browser and new_page return
LaunchBrowser ==
    /\ pc = "launch"
    /\ session_open' = TRUE
    /\ Phase1Step("navigate")

\* manager.py 166/182/186/196: launch_browser raises RuntimeError (or
\* connect_over_cdp re-raises).  It is not a PipelineError, so neither
\* handler of runner.py 462/468 catches it: it leaves run_automation.
LaunchBrowserRaises ==
    /\ pc = "launch"
    /\ attempt' = LogSet(attempt, "ended", TRUE)
    /\ pc' = "raised"
    /\ UNCHANGED << configVars, sideVars, agentVars, loggerVars, agent_attempts, total_attempts,
                    agent_json_paths, task_success, now, shutdown_event,
                    attempt_timed_out, guard_task, guard_deadline,
                    completion_logger, current_task, session_files,
                    session_open, ext_signalled, halt_reason, hist >>

\* runner.py 404-409
Navigate ==
    /\ pc = "navigate"
    /\ \E ok \in BOOLEAN :
          IF ok THEN session_open' = session_open /\ Phase1Step("auth")
          ELSE PipelineFailure(NAVIGATION_FAILED)

\* runner.py 411-449: get_state, the login wait when AUTH_REQUIRED (login_ok:
\* READY was observed within login_timeout), the rate-limit check
AuthCheck ==
    /\ pc = "auth"
    /\ \E state \in AgentState, login_ok \in BOOLEAN :
          IF state = "auth_required" /\ ~login_ok
             THEN PipelineFailure(AUTH_FAILED)
          ELSE IF state = "rate_limited"
             THEN PipelineFailure(RATE_LIMITED)
          ELSE session_open' = session_open /\ Phase1Step("upload")

\* runner.py 454-460
UploadFiles ==
    /\ pc = "upload"
    /\ \E ok \in BOOLEAN :
          IF ok THEN session_open' = session_open /\ Phase1Step("phase2")
          ELSE PipelineFailure(UPLOAD_FAILED)

\* runner.py 470-472: await asyncio.sleep(sleep_between_retries); continue
PipelineBackoff ==
    /\ pc = "pipeline_sleep"
    /\ session_open' = session_open
    /\ Phase1Step("top")

\* --------------------------------------------------------- Phase 2
\* variant of EndTaskAndRecord: the path of the file is not recorded
EndTaskAndRecord_NoPath(status) ==
    /\ session_data' =
          Append(session_data, [current_task EXCEPT !.task_status = status])
    /\ session_files' =
          [session_files EXCEPT ![completion_logger] = session_data']
    /\ current_task' = NoTask
    /\ agent_json_paths' = agent_json_paths

\* completion_logger.py 94-116 followed by the runner's
\* agent_json_paths.append(completion_logger.session_file): the open task is
\* closed with the status, appended to session_data["tasks"] and the file is
\* rewritten from session_data
EndTaskAndRecord(status) ==
    /\ session_data' =
          Append(session_data, [current_task EXCEPT !.task_status = status])
    /\ session_files' =
          [session_files EXCEPT ![completion_logger] = session_data']
    /\ current_task' = NoTask
    /\ agent_json_paths' = Append(agent_json_paths, completion_logger)

\* runner.py 496-500: the sleep of _attempt_timeout_guard
EffectiveTimeout ==
    IF max_sec_per_task > 0
    THEN Min(max_sec_per_attempt, max_sec_per_task - (now - task_wall_start))
    ELSE max_sec_per_attempt

\* variant of FinallyGuard: the guard is not cancelled
FinallyGuard_NoCancel ==
    /\ guard_task' = guard_task
    /\ guard_deadline' = guard_deadline
    /\ shutdown_event' = IF attempt_timed_out THEN FALSE ELSE shutdown_event

\* variant of FinallyGuard: the shutdown event is left set
FinallyGuard_NoClear ==
    /\ guard_task' = IF guard_task = "pending" THEN "cancelled" ELSE guard_task
    /\ guard_deadline' = 0
    /\ shutdown_event' = shutdown_event

\* runner.py 710-714: finally: guard_task.cancel(), and the shutdown event is
\* cleared when this attempt's guard had fired
FinallyGuard ==
    /\ guard_task' = IF guard_task = "pending" THEN "cancelled" ELSE guard_task
    /\ guard_deadline' = 0
    /\ shutdown_event' = IF attempt_timed_out THEN FALSE ELSE shutdown_event

\* runner.py 710-724: an exception leaves the inner try through finally and
\* is caught by except Exception: agent_attempts += 1, and the record is
\* closed UNKNOWN only if a task is still open in the logger
ExceptEntry ==
    /\ FinallyGuard
    /\ agent_attempts' = agent_attempts + 1
    /\ IF completion_logger # 0 /\ current_task # NoTask
       THEN /\ EndTaskAndRecord(UNKNOWN)
            /\ attempt' =
                  LogSet(LogCharge(attempt), "status", UNKNOWN)
       ELSE /\ attempt' = LogCharge(attempt)
            /\ UNCHANGED << session_files, session_data, current_task,
                            agent_json_paths >>
    /\ pc' = "except_cleanup"
    /\ UNCHANGED << configVars, sideVars, agentVars, current_prompt, total_attempts, task_success, now,
                    attempt_timed_out, completion_logger, session_open,
                    ext_signalled, halt_reason, hist >>

\* the failure branches of the inner try (runner.py 516-518, 545-547,
\* 563-565, 581-583): agent_attempts += 1, end_task(status), append the path
AgentFailure(status, next) ==
    /\ agent_attempts' = agent_attempts + 1
    /\ EndTaskAndRecord(status)
    /\ attempt' = LogSet(LogCharge(attempt), "status", status)
    /\ hist' = Count(hist, "agent_failed")
    /\ pc' = next
    /\ UNCHANGED << configVars, sideVars, agentVars, current_prompt, total_attempts, task_success, now,
                    shutdown_event, attempt_timed_out, guard_task,
                    guard_deadline, completion_logger, session_open,
                    ext_signalled, halt_reason >>

Phase2Step(next) ==
    /\ pc' = next
    /\ UNCHANGED << configVars, sideVars, agentVars, loggerVars, agent_attempts, total_attempts,
                    agent_json_paths, task_success, now, shutdown_event,
                    attempt_timed_out, guard_task, guard_deadline,
                    completion_logger, current_task, session_files,
                    session_open, attempt, ext_signalled, halt_reason, hist >>

\* runner.py 477-505: a CompletionLogger with a new session file (its tasks
\* list empty on disk), start_task, and the timeout guard is created.  The
\* constructor cannot fail here: its mkdir(exist_ok) targets the directory
\* create_run_directory made before the loop, and _write_to_disk swallows
\* its errors.
\* The file is a new one: its name carries the second the logger
\* was constructed in, and two attempts are a back-off sleep and a browser
\* launch apart.
StartPhase2 ==
    /\ pc = "phase2"
    /\ session_data' = << >>
    /\ session_files' = Append(session_files, session_data')
    /\ completion_logger' = Len(session_files) + 1
    /\ current_task' = [NoTask EXCEPT !.attempt_number = total_attempts]
    /\ attempt_timed_out' = FALSE
    /\ guard_task' = IF EffectiveTimeout > 0 THEN "pending" ELSE "finished"
    /\ guard_deadline' = IF EffectiveTimeout > 0 THEN now + EffectiveTimeout
                         ELSE guard_deadline
    /\ attempt' = LogSet(attempt, "passed", TRUE)
    /\ hist' = Count(hist, "passed")
    /\ pc' = "prompts"
    /\ UNCHANGED << configVars, sideVars, agentVars, current_prompt, agent_attempts, total_attempts,
                    agent_json_paths, task_success, now, shutdown_event,
                    session_open, ext_signalled, halt_reason >>

\* variant of PromptFailureStatus: the guard's flag is not consulted
PromptFailureStatus_NoTimeout == PROMPT_FAILED

\* runner.py 512-515: the status of an attempt whose prompts failed
PromptFailureStatus ==
    IF attempt_timed_out THEN TIMEOUT ELSE PROMPT_FAILED

\* runner.py 509-519: process_all_prompts returns True, returns False
\* (TIMEOUT when the guard has fired, else PROMPT_FAILED) or raises
ProcessAllPrompts ==
    /\ pc = "prompts"
    /\ \E result \in {"true", "false", "raise"} :
          CASE result = "true" -> Phase2Step("download")
            [] result = "false" ->
                  AgentFailure(PromptFailureStatus, "archive")
            [] result = "raise" -> ExceptEntry

\* runner.py 521-527: best-effort archival download, exceptions swallowed
ArchivalDownload ==
    /\ pc = "archive"
    /\ Phase2Step("cleanup")

\* runner.py 529-533 (550-554, 569-573, 591-595): browser teardown after an
\* agent failure, exceptions swallowed
CleanupAfterFailure ==
    /\ pc = "cleanup"
    /\ session_open' = FALSE
    /\ pc' = "backoff"
    /\ UNCHANGED << configVars, sideVars, agentVars, loggerVars, agent_attempts, total_attempts,
                    agent_json_paths, task_success, now, shutdown_event,
                    attempt_timed_out, guard_task, guard_deadline,
                    completion_logger, current_task, session_files,
                    attempt, ext_signalled, halt_reason, hist >>

\* runner.py 535-536 (555-556, 574-575, 596-597): the back-off sleep, then
\* continue leaves the inner try through finally
BackoffAndContinue ==
    /\ pc = "backoff"
    /\ FinallyGuard
    /\ attempt' = LogSet(attempt, "ended", TRUE)
    /\ pc' = "top"
    /\ UNCHANGED << configVars, sideVars, agentVars, loggerVars, agent_attempts, total_attempts,
                    agent_json_paths, task_success, now, attempt_timed_out,
                    completion_logger, current_task, session_files,
                    session_open, ext_signalled, halt_reason, hist >>

\* what download_all_artifacts can return: a file that is not a spreadsheet,
\* and spreadsheets by what validate_excel_file finds in them
FileKinds == {"other", "xlsx_valid", "xlsx_empty", "xlsx_corrupt", "xlsx_nosheets"}

Downloads == UNION { [1..n -> FileKinds] : n \in 0..MaxFiles }

\* runner.py 560, 602: f.lower().endswith((".xlsx", ".xls"))
IsExcel(kind) == kind # "other"

\* validators/excel.py 11-83, by the status it returns
validate_excel_file(kind) ==
    CASE kind = "xlsx_empty"    -> DOWNLOAD_FAILED
      [] kind = "xlsx_corrupt"  -> FILE_CORRUPTED
      [] kind = "xlsx_nosheets" -> MISSING_SHEETS
      [] OTHER                  -> SUCCESS

\* runner.py 577-588: the status of the first invalid file, SUCCESS if none
RECURSIVE FirstInvalid(_)
FirstInvalid(files) ==
    IF files = << >> THEN SUCCESS
    ELSE IF validate_excel_file(Head(files)) # SUCCESS
         THEN validate_excel_file(Head(files))
         ELSE FirstInvalid(Tail(files))

\* runner.py 544-597: the verdict on the downloaded files
DownloadVerdict(downloaded_files) ==
    IF downloaded_files = << >> THEN DOWNLOAD_FAILED
    ELSE IF SelectSeq(downloaded_files, IsExcel) = << >> THEN DOWNLOAD_FAILED
    ELSE FirstInvalid(SelectSeq(downloaded_files, IsExcel))

\* runner.py 608-612: agent_attempts += 1, end_task(SUCCESS), append the path
RecordSuccess ==
    /\ agent_attempts' = agent_attempts + 1
    /\ EndTaskAndRecord(SUCCESS)
    /\ attempt' = LogSet(LogCharge(attempt), "status", SUCCESS)
    /\ pc' = "history"
    /\ UNCHANGED << configVars, sideVars, agentVars, current_prompt, total_attempts, task_success, now,
                    shutdown_event, attempt_timed_out, guard_task,
                    guard_deadline, completion_logger, session_open,
                    ext_signalled, halt_reason, hist >>

\* runner.py 540-612: download_all_artifacts returns or raises; the files
\* are validated; rename_solution_file (shutil.move) succeeds or raises
DownloadAndValidate ==
    /\ pc = "download"
    /\ \/ ExceptEntry
       \/ \E downloaded_files \in Downloads :
             IF DownloadVerdict(downloaded_files) # SUCCESS
             THEN AgentFailure(DownloadVerdict(downloaded_files), "cleanup")
             ELSE \E rename_ok \in BOOLEAN :
                     IF rename_ok THEN RecordSuccess ELSE ExceptEntry

\* runner.py 698-703: the next step of a successful attempt
AfterUpload == IF no_hold THEN "final_cleanup" ELSE "hold"

\* runner.py 615-642: get_conversation_history, and the conversation file is
\* written (open() of a path built from the raw task_name); either may
\* raise.  When config["upload_to_cloud"] is set the upload follows.
SaveHistoryAndUpload ==
    /\ pc = "history"
    /\ \E ok \in BOOLEAN :
          IF ok THEN Phase2Step(IF upload_to_cloud THEN "cloud_upload"
                                ELSE AfterUpload)
          ELSE ExceptEntry

\* runner.py 643-696 with storage/uploader.py 189-239: upload_results
\* returns a result with or without errors, which is only logged, or it
\* raises (the S3 client cannot be created, the temporary conversation
\* file cannot be written: uploader.py 36-44, 108-110)
UploadResults ==
    /\ pc = "cloud_upload"
    /\ \E upload_result \in {"success", "errors", "raises"} :
          IF upload_result = "raises" THEN ExceptEntry
          ELSE Phase2Step(AfterUpload)

\* runner.py 699-703: while not shutdown_event.is_set(): sleep(1)
HoldBrowser ==
    /\ pc = "hold"
    /\ shutdown_event
    /\ Phase2Step("final_cleanup")

\* runner.py 705-714: cleanup; playwright_ctx.__aexit__ returns or raises;
\* task_success = True; break leaves through finally
FinalCleanup ==
    /\ pc = "final_cleanup"
    /\ \/ ExceptEntry
       \/ /\ FinallyGuard
          /\ session_open' = FALSE
          /\ task_success' = TRUE
          /\ attempt' = LogSet(attempt, "ended", TRUE)
          /\ pc' = "post"
          /\ UNCHANGED << configVars, sideVars, agentVars, loggerVars, agent_attempts, total_attempts,
                          agent_json_paths, now, attempt_timed_out,
                          completion_logger, current_task, session_files,
                          ext_signalled, halt_reason, hist >>

\* runner.py 725-729: teardown in the exception handler
ExceptCleanup ==
    /\ pc = "except_cleanup"
    /\ session_open' = FALSE
    /\ pc' = "except_sleep"
    /\ UNCHANGED << configVars, sideVars, agentVars, loggerVars, agent_attempts, total_attempts,
                    agent_json_paths, task_success, now, shutdown_event,
                    attempt_timed_out, guard_task, guard_deadline,
                    completion_logger, current_task, session_files,
                    attempt, ext_signalled, halt_reason, hist >>

\* runner.py 730-731: back-off sleep and continue
ExceptBackoff ==
    /\ pc = "except_sleep"
    /\ attempt' = LogSet(attempt, "ended", TRUE)
    /\ pc' = "top"
    /\ UNCHANGED << configVars, sideVars, agentVars, loggerVars, agent_attempts, total_attempts,
                    agent_json_paths, task_success, now, shutdown_event,
                    attempt_timed_out, guard_task, guard_deadline,
                    completion_logger, current_task, session_files,
                    session_open, ext_signalled, halt_reason, hist >>

\* --------------------------------------------------------- post-loop
\* variant of mark_json_deprecated: the file is left as it is
mark_json_deprecated_Noop(files, path) == files

\* runner.py 126-143: every task of the file gets deprecated = True and the
\* reason
mark_json_deprecated(files, path) ==
    [files EXCEPT ![path] =
        [i \in DOMAIN @ |-> [@[i] EXCEPT !.deprecated = TRUE,
                                         !.deprecated_reason = SUPERSEDED]]]

RECURSIVE DeprecateAll(_, _)
DeprecateAll(files, paths) ==
    IF paths = << >> THEN files
    ELSE DeprecateAll(mark_json_deprecated(files, Head(paths)), Tail(paths))

\* runner.py 733-744: all paths but the last are deprecated; return
PostLoop ==
    /\ pc = "post"
    /\ session_files' =
          IF Len(agent_json_paths) > 1
          THEN DeprecateAll(session_files,
                            SubSeq(agent_json_paths, 1, Len(agent_json_paths) - 1))
          ELSE session_files
    /\ pc' = "done"
    /\ UNCHANGED << configVars, sideVars, agentVars, loggerVars, agent_attempts, total_attempts,
                    agent_json_paths, task_success, now, shutdown_event,
                    attempt_timed_out, guard_task, guard_deadline,
                    completion_logger, current_task, session_open,
                    attempt, ext_signalled, halt_reason, hist >>

\* --------------------------------------------------------- environment
\* runner.py 501-503: the guard's sleep is over; it runs while the main
\* coroutine is suspended inside the inner try
GuardFire ==
    /\ guard_task = "pending"
    /\ now >= guard_deadline
    /\ attempt_timed_out' = TRUE
    /\ shutdown_event' = TRUE
    /\ guard_task' = "fired"
    /\ guard_deadline' = 0
    /\ attempt' = LogSet(attempt, "timed_out", TRUE)
    /\ UNCHANGED << configVars, sideVars, agentVars, loggerVars, pc, agent_attempts, total_attempts,
                    agent_json_paths, task_success, now,
                    completion_logger, current_task, session_files,
                    session_open, ext_signalled, halt_reason, hist >>

Running == pc \notin {"post", "done", "raised"}

\* runner.py 59-65: SIGINT/SIGTERM handler
HandleSignal ==
    /\ Running
    /\ ~(shutdown_event /\ ext_signalled)
    /\ shutdown_event' = TRUE
    /\ ext_signalled' = TRUE
    /\ UNCHANGED << configVars, sideVars, agentVars, loggerVars, pc, agent_attempts, total_attempts,
                    agent_json_paths, task_success, now, attempt_timed_out,
                    guard_task, guard_deadline, completion_logger,
                    current_task, session_files, session_open, attempt,
                    halt_reason, hist >>

\* the wall clock advances
Tick ==
    /\ Running
    /\ now < MaxTime
    /\ now' = now + 1
    /\ UNCHANGED << configVars, sideVars, agentVars, loggerVars, pc, agent_attempts, total_attempts,
                    agent_json_paths, task_success, shutdown_event,
                    attempt_timed_out, guard_task, guard_deadline,
                    completion_logger, current_task, session_files,
                    session_open, attempt, ext_signalled, halt_reason, hist >>

Next ==
    \/ LoopHalt
    \/ StartAttempt
    \/ LaunchBrowser
    \/ LaunchBrowserRaises
    \/ Navigate
    \/ AuthCheck
    \/ UploadFiles
    \/ PipelineBackoff
    \/ StartPhase2
    \/ ProcessAllPrompts
    \/ ArchivalDownload
    \/ CleanupAfterFailure
    \/ BackoffAndContinue
    \/ DownloadAndValidate
    \/ SaveHistoryAndUpload
    \/ HoldBrowser
    \/ FinalCleanup
    \/ ExceptCleanup
    \/ ExceptBackoff
    \/ PostLoop
    \/ GuardFire
    \/ HandleSignal
    \/ Tick

Spec == Init /\ [][Next]_vars

TypeOK ==
    /\ pc \in {"top", "launch", "navigate", "auth", "upload", "cloud_upload",
               "pipeline_sleep", "phase2", "prompts", "archive", "cleanup", "backoff",
               "download", "history", "hold", "final_cleanup",
               "except_cleanup", "except_sleep", "post", "done", "raised"}
    /\ total_attempts \in 0..MaxTotalAttempts
    /\ now \in 0..MaxTime
    /\ guard_task \in {"none", "pending", "finished", "fired", "cancelled"}

\* ===================================================================
\* Properties of the retry loop
\* ===================================================================
Returned == pc = "done"

\* a closed record with this status exists in some completion file
HasRecord(status) ==
    \E f \in 1..Len(session_files) :
       \E i \in 1..Len(session_files[f]) :
          session_files[f][i].task_status = status

\* the record the logger of the current attempt closed last
LastRecord(files) == Last(files[completion_logger])

\* C1: after any sequence of attempt outcomes total_attempts is the number of
\* attempts started, and agent_attempts is the number of attempts that got past
\* Phase 1, each of them charged exactly once.
C1_RetryAccounting ==
    /\ total_attempts = hist.started
    /\ attempt.charges <= 1
    /\ (attempt.ended => agent_attempts = hist.passed)

\* the attempt in progress has no outcome yet
Undecided == hist.started > 0 /\ ~attempt.ended /\ attempt.status = "none"

\* every attempt that has an outcome failed with an agent status
OnlyAgentFailures ==
    hist.agent_failed = hist.started - (IF Undecided THEN 1 ELSE 0)

\* C2: with max_agent_attempts = N <= max_total_attempts, no wall-clock budget
\* and no external shutdown, when every attempt passes Phase 1 and fails with
\* an agent status, no attempt beyond the N-th is started, and the run ends
\* with agent_attempts = total_attempts = N and returns False.
C2_AgentExhaustion ==
    ( /\ max_agent_attempts <= max_total_attempts
      /\ max_sec_per_task = 0
      /\ ~ext_signalled )
    =>
    /\ (OnlyAgentFailures => total_attempts <= max_agent_attempts)
    /\ (Returned /\ hist.agent_failed = hist.started =>
           /\ agent_attempts = max_agent_attempts
           /\ total_attempts = max_agent_attempts
           /\ ~task_success)

C2_Witness ==
    /\ Returned
    /\ max_sec_per_task = 0
    /\ ~ext_signalled
    /\ max_agent_attempts = 2
    /\ max_total_attempts = 3
    /\ hist.agent_failed = hist.started
    /\ total_attempts = 2

\* C3 as stated: when Phase 1 fails with a PipelineError on every attempt, the
\* loop halts after exactly max_total_attempts attempts, agent_attempts is 0,
\* no completion record exists and the run returns False.
C3_AsStated ==
    (Returned /\ hist.started >= 1 /\ hist.pipeline_failed = hist.started) =>
       /\ total_attempts = max_total_attempts
       /\ agent_attempts = 0
       /\ session_files = << >>
       /\ agent_json_paths = << >>
       /\ ~task_success

\* C3 amended: when Phase 1 fails with a PipelineError on every attempt,
\* agent_attempts stays 0, no completion record is created and the run returns
\* False; the loop halts after at most max_total_attempts attempts, and after
\* exactly that many unless max_agent_attempts is 0, the wall-clock budget
\* elapsed or the shutdown signal was set when the loop stopped.
C3_PipelineExhaustion ==
    (hist.pipeline_failed = hist.started) =>
       /\ agent_attempts = 0
       /\ session_files = << >>
       /\ agent_json_paths = << >>
       /\ ~task_success
       /\ (Returned =>
             /\ total_attempts <= max_total_attempts
             /\ (max_agent_attempts > 0 /\ halt_reason \notin {"wall", "shutdown"}
                    => total_attempts = max_total_attempts))

C3_Witness ==
    /\ Returned
    /\ hist.pipeline_failed = hist.started
    /\ max_total_attempts = 3
    /\ total_attempts = 3
    /\ halt_reason = "total"

\* C4: total_attempts never exceeds max_total_attempts and agent_attempts never
\* exceeds max_agent_attempts, and an attempt is started only when neither
\* bound is reached, the wall-clock budget (if any) has not elapsed and the
\* shutdown signal is not set.
C4_LoopBounds ==
    [][ /\ total_attempts' <= max_total_attempts
        /\ agent_attempts' <= max_agent_attempts
        /\ (total_attempts' # total_attempts =>
               /\ total_attempts < max_total_attempts
               /\ agent_attempts < max_agent_attempts
               /\ ~(max_sec_per_task > 0
                      /\ now - task_wall_start >= max_sec_per_task)
               /\ ~shutdown_event) ]_vars

\* C5: the run returns True exactly when some record was closed as SUCCESS,
\* and once a record is closed as SUCCESS the loop ends successfully: the
\* attempt goes on to its teardown and the return, no failure is charged and
\* no further attempt is started.
C5_SuccessIffReturnTrue ==
    /\ (Returned => (task_success <=> HasRecord(SUCCESS)))
    /\ (HasRecord(SUCCESS) =>
           /\ pc \in {"history", "hold", "final_cleanup", "post", "done"}
           /\ attempt.status = SUCCESS
           /\ attempt.charges = 1)

\* C6: an attempt is charged to agent_attempts exactly when the status it ends
\* with is an agent status; one that ends with a pipeline status
\* (NAVIGATION_FAILED, AUTH_FAILED, UPLOAD_FAILED, RATE_LIMITED, UNKNOWN) is
\* never charged.
C6_ChargedIffAgentStatus ==
    /\ (attempt.ended =>
           (attempt.charges > 0 <=> attempt.status \in AGENT_STATUSES))
    /\ (attempt.status \in PIPELINE_STATUSES => attempt.charges = 0)

\* C7: an exception raised in Phase 2 is caught: the attempt is classified
\* UNKNOWN with its record closed, agent_attempts has grown by exactly one for
\* the attempt, the browser session is torn down before the back-off, and the
\* loop goes on.
C7_Phase2ExceptionCharged ==
    /\ (pc \in {"except_cleanup", "except_sleep"} =>
           /\ attempt.passed
           /\ attempt.charges = 1
           /\ attempt.status = UNKNOWN
           /\ current_task = NoTask
           /\ LastRecord(session_files).task_status = UNKNOWN)
    /\ (pc = "except_sleep" => ~session_open)

\* C8: every failure inside Phase 1, an exception of browser launch included,
\* is caught and turned into a pipeline failure; run_automation never raises,
\* and a run that ends without success was stopped by a loop-top condition.
C8_Phase1NeverRaises ==
    /\ pc # "raised"
    /\ (attempt.ended /\ ~attempt.passed /\ total_attempts > 0 =>
           attempt.status \in PIPELINE_STATUSES)

\* C9: when process_all_prompts returns False the record is closed as TIMEOUT
\* if the timeout guard has fired and as PROMPT_FAILED otherwise, and
\* agent_attempts grows by one; the record is closed while the browser session
\* is still open, before the archival download and the teardown; after the
\* back-off the loop is at its top again.
C9_PromptFailureClassified ==
    [][ /\ (pc = "prompts" /\ pc' = "archive" =>
               /\ LastRecord(session_files').task_status =
                     (IF attempt_timed_out THEN TIMEOUT ELSE PROMPT_FAILED)
               /\ Len(session_files'[completion_logger]) = 1
               /\ current_task' = NoTask
               /\ agent_attempts' = agent_attempts + 1
               /\ session_open')
        /\ (pc = "prompts" /\ pc' \notin {"prompts", "archive"} =>
               attempt'.status \notin {TIMEOUT, PROMPT_FAILED})
        /\ (pc = "archive" /\ pc' # pc => pc' = "cleanup" /\ session_open)
        /\ (pc = "cleanup" /\ pc' # pc => pc' = "backoff" /\ ~session_open')
        /\ (pc = "backoff" /\ pc' # pc => pc' = "top") ]_vars

C9_Witness ==
    /\ pc = "archive"
    /\ attempt.status = TIMEOUT
    /\ attempt.timed_out
    /\ HasRecord(TIMEOUT)

\* C10: after an attempt whose timeout guard fired, the shutdown event is
\* clear again at the loop top unless a signal arrived from outside, so the
\* loop never stops on the shutdown condition because of a guard alone.
C10_TimeoutDoesNotStopLoop ==
    /\ (pc = "top" /\ attempt.timed_out /\ ~ext_signalled => ~shutdown_event)
    /\ (halt_reason = "shutdown" => ext_signalled)

C10_Witness ==
    /\ pc = "top"
    /\ attempt.timed_out
    /\ ~ext_signalled
    /\ ~shutdown_event
    /\ HaltCheck = "none"

\* ===================================================================
\* CompletionLogger driven call by call (engine/completion_logger.py)
\* ===================================================================
\* the statuses end_task is given here: it only tells SUCCESS from the rest
LoggedStatuses == { SUCCESS, TIMEOUT, UNKNOWN }

\* completion_logger.py 71-76: json.dump(self.session_data) replaces the
\* file.  current_task and current_prompt are not part of session_data.  A
\* failing write is logged and swallowed; the disk is taken to be writable.
write_to_disk ==
    session_files' = [session_files EXCEPT ![completion_logger] = session_data']

\* completion_logger.py 30-63: a logger right after construction, its file
\* written with an empty task list; nothing of run_automation is running
LoggerInit ==
    /\ LoopIdle
    /\ completion_logger = 1
    /\ session_data = << >>
    /\ current_task = NoTask
    /\ current_prompt = NoPrompt
    /\ session_files = << session_data >>
    /\ NoAgent
    /\ NoSide

\* completion_logger.py 78-92
start_task(attempt_number) ==
    /\ current_task' = [NoTask EXCEPT !.attempt_number = attempt_number]
    /\ UNCHANGED << session_data, current_prompt >>
    /\ write_to_disk

\* variant of end_task: the test for an active task is missing
end_task_Unguarded(task_status) ==
    /\ session_data' =
          Append(session_data,
                 [current_task EXCEPT !.task_status = task_status])
    /\ current_task' = NoTask
    /\ UNCHANGED current_prompt
    /\ write_to_disk

\* completion_logger.py 94-116
end_task(task_status) ==
    IF current_task = NoTask
    THEN UNCHANGED << session_data, current_task, current_prompt,
                      session_files >>
    ELSE /\ session_data' =
               Append(session_data,
                      [current_task EXCEPT !.task_status = task_status])
         /\ current_task' = NoTask
         /\ UNCHANGED current_prompt
         /\ write_to_disk

\* completion_logger.py 118-126
start_prompt ==
    /\ current_prompt' = [success |-> "pending"]
    /\ UNCHANGED << session_data, current_task >>
    /\ write_to_disk

\* completion_logger.py 128-147
end_prompt(success) ==
    IF current_prompt = NoPrompt
    THEN UNCHANGED << session_data, current_task, current_prompt,
                      session_files >>
    ELSE /\ current_task' =
               IF current_task # NoTask
               THEN [current_task EXCEPT
                        !.prompts = Append(@, [success |-> success])]
               ELSE current_task
         /\ current_prompt' = NoPrompt
         /\ UNCHANGED session_data
         /\ write_to_disk

LoggerFrame ==
    UNCHANGED << configVars, sideVars, loopVars, agentVars, completion_logger >>

StartTask ==
    /\ \E attempt_number \in 1..MaxAgentAttempts : start_task(attempt_number)
    /\ LoggerFrame

EndTask ==
    /\ current_task # NoTask => Len(session_data) < MaxLoggedTasks
    /\ \E task_status \in LoggedStatuses : end_task(task_status)
    /\ LoggerFrame

StartPrompt ==
    /\ start_prompt
    /\ LoggerFrame

EndPrompt ==
    /\ current_task # NoTask => Len(current_task.prompts) < MaxLoggedPrompts
    /\ \E success \in BOOLEAN : end_prompt(success)
    /\ LoggerFrame

LoggerNext ==
    \/ StartTask
    \/ EndTask
    \/ StartPrompt
    \/ EndPrompt

SpecLogger == LoggerInit /\ [][LoggerNext]_vars

\* the file of the logger as it is on disk
OnDisk == session_files[completion_logger]

C12_OneRecordPerAttempt ==
    /\ Len(session_files) = hist.passed
    /\ Len(agent_json_paths) =
          hist.passed - (IF current_task # NoTask THEN 1 ELSE 0)
    /\ \A i \in 1..Len(agent_json_paths) : agent_json_paths[i] = i
    /\ \A f \in 1..Len(session_files) :
          Len(session_files[f]) =
             (IF f <= Len(agent_json_paths) THEN 1 ELSE 0)
    /\ (pc = "prompts" =>
           /\ current_task # NoTask
           /\ current_task.attempt_number = total_attempts
           /\ completion_logger = Len(session_files))
    /\ (current_task # NoTask => pc \in {"prompts", "download"})

C12_Witness ==
    /\ Returned
    /\ Len(agent_json_paths) = 2
    /\ session_files[1][1].task_status = UNKNOWN
    /\ session_files[2][1].task_status = SUCCESS

min_elapsed_sec == IF agent_mode THEN 300 ELSE 15

\* chatgpt.py 557: await self._extract_last_response() or ""
OrEmpty(text) == IF text = None THEN EmptyText ELSE text

\* an agent constructed on a page, with its configuration; run_automation
\* is not looked into
AgentInit ==
    /\ LoopIdle
    /\ NoLogger
    /\ agent_mode \in BOOLEAN
    /\ max_wait_per_prompt = MaxWaitPerPrompt
    /\ check_interval = MaxCheckInterval
    /\ prompts \in { [i \in 1..n |-> i] : n \in 0..MaxPrompts }
    /\ detector = "free"
    /\ provider = "chatgpt_web"
    /\ NewAgent
    /\ NoSide

AgentFrame ==
    UNCHANGED << configVars, sideVars, loopVars, completionVars, agentConfig,
                 submitVars >>

\* chatgpt.py 89-93: the baseline is reset before the page is loaded
NavigateToNewChat ==
    /\ apc = "constructed"
    /\ self_baseline_article_count' = 0
    /\ self_baseline_set' = FALSE
    /\ apc' = "ready"
    /\ UNCHANGED << prompt_number, messages, pap_result, waitVars >>
    /\ AgentFrame

\* chatgpt.py 928-943: no prompts is a failure; files_to_upload is empty, as
\* run_automation passes it
EnterProcessAllPrompts ==
    /\ apc = "ready"
    /\ IF prompts = << >>
       THEN /\ pap_result' = "false"
            /\ apc' = "pap_return"
            /\ UNCHANGED prompt_number
       ELSE /\ prompt_number' = 1
            /\ apc' = "submit"
            /\ UNCHANGED pap_result
    /\ UNCHANGED << messages, self_baseline_article_count, self_baseline_set,
                    waitVars >>
    /\ AgentFrame

\* chatgpt.py 945-949: submit_prompt returns True or False
SubmitPrompt ==
    /\ apc = "submit"
    /\ \E ok \in BOOLEAN :
          IF ok THEN apc' = "wfr_entry" /\ UNCHANGED pap_result
          ELSE apc' = "pap_return" /\ pap_result' = "false"
    /\ UNCHANGED << prompt_number, messages, self_baseline_article_count,
                    self_baseline_set, waitVars >>
    /\ AgentFrame

\* variant of AfterSleep: the clock stands still
AfterSleep_NoTime(ms) == elapsed

\* page.wait_for_timeout(ms): the loop clock when the coroutine resumes
AfterSleep(ms) == elapsed + Seconds(ms)

\* variant of StoreBaseline: every call stores its own count
StoreBaseline_Always(count) == count

\* chatgpt.py 491-499: the session baseline is stored by the first call only
StoreBaseline(count) ==
    IF ~self_baseline_set THEN count ELSE self_baseline_article_count

\* chatgpt.py 486-505: start_time, the article count before this response,
\* the session baseline, and the wait before the first poll
Snapshot ==
    /\ apc = "wfr_entry"
    /\ \E count \in 0..MaxArticles :
          /\ baseline_article_count' = count
          /\ self_baseline_article_count' = StoreBaseline(count)
    /\ self_baseline_set' = TRUE
    /\ elapsed' = AfterSleep(SETTLE_MS)
    /\ apc' = "wfr_poll"
    /\ UNCHANGED << prompt_number, messages, pap_result, polls,
                    generation_started, stable_count, last_response_text,
                    last_article_count, final_response, response, outcome,
                    started_at, reset_from, script, query_failed >>
    /\ AgentFrame

\* a return of wait_for_response
Return(value, how) ==
    /\ response' = value
    /\ outcome' = how
    /\ apc' = "wfr_return"

\* chatgpt.py 514-524: indicators, or more articles than before the prompt
StartObserved(generating, current_count) ==
    generating \/ current_count > baseline_article_count

\* chatgpt.py 535-539
EnterStabilization ==
    /\ stable_count' = 0
    /\ last_response_text' = EmptyText
    /\ last_article_count' = baseline_article_count
    /\ apc' = "wfr_stabilize"

\* variant of StartLoopExhausted: the stabilization loop is entered anyway
StartLoopExhausted_Proceed ==
    /\ EnterStabilization
    /\ UNCHANGED << response, outcome >>

\* chatgpt.py 528-530: the start loop ran out, return None
StartLoopExhausted ==
    /\ Return(None, "no_start")
    /\ UNCHANGED << stable_count, last_response_text, last_article_count >>

\* the scripted scenario [not generating, generating, ...] as far as the
\* start loop consumes it; -1 when the samples left the script
ScriptAtPoll(generating, current_count) ==
    IF script = 0 /\ ~StartObserved(generating, current_count) THEN 1
    ELSE IF script = 1 /\ generating THEN 2
    ELSE -1

\* chatgpt.py 507-530: one iteration of the start loop with its sleep, or
\* the end of the loop
StartConfirmation ==
    /\ apc = "wfr_poll"
    /\ IF polls >= START_POLLS
       THEN /\ StartLoopExhausted
            /\ UNCHANGED << polls, generation_started, elapsed, started_at,
                            script >>
       ELSE IF shutdown_event
       THEN /\ Return(None, "shutdown")
            /\ UNCHANGED << polls, generation_started, elapsed, started_at,
                            script, stable_count, last_response_text,
                            last_article_count >>
       ELSE \E generating \in BOOLEAN, current_count \in 0..MaxArticles :
               /\ script' = ScriptAtPoll(generating, current_count)
               /\ IF StartObserved(generating, current_count)
                  THEN /\ generation_started' = TRUE
                       /\ started_at' = elapsed
                       /\ EnterStabilization
                       /\ UNCHANGED << polls, elapsed >>
                  ELSE /\ polls' = polls + 1
                       /\ elapsed' = AfterSleep(POLL_MS)
                       /\ UNCHANGED << generation_started, started_at,
                                       stable_count, last_response_text,
                                       last_article_count, apc >>
               /\ UNCHANGED << response, outcome >>
    /\ UNCHANGED << prompt_number, messages, pap_result,
                    self_baseline_article_count, self_baseline_set,
                    baseline_article_count, final_response, reset_from,
                    query_failed >>
    /\ AgentFrame

\* variant of NextStableCount: a changed article count does not reset
NextStableCount_IgnoreArticles(generating, articles_changed, text_changed) ==
    IF generating THEN 0
    ELSE IF text_changed THEN 0 ELSE stable_count + 1

\* chatgpt.py 559-573: the consecutive-stable counter after a sample
NextStableCount(generating, articles_changed, text_changed) ==
    IF generating \/ articles_changed THEN 0
    ELSE IF text_changed THEN 0 ELSE stable_count + 1

\* variant of Complete: the length of the response is not looked at
Complete_AnyLength(counted, current_response) ==
    /\ counted >= required_stable
    /\ elapsed >= min_elapsed_sec

\* chatgpt.py 575-586: the response is accepted
Complete(counted, current_response) ==
    /\ counted >= required_stable
    /\ current_response.len > MIN_LENGTH
    /\ elapsed >= min_elapsed_sec

\* variant of TimeoutResult: whatever was extracted is returned
TimeoutResult_AnyLength(final) == final

\* chatgpt.py 610-614
TimeoutResult(final) ==
    IF final # None /\ final.len > MIN_LENGTH THEN final ELSE None

\* the scripted scenario [..., generating, 5 stable samples of "Result ABC"]
\* as far as the stabilization loop consumes it; it stays at 8 once consumed
ScriptAtSample(generating, articles_changed, current_response) ==
    IF script = 2 /\ generating THEN 3
    ELSE IF script \in 3..7 /\ ~generating /\ current_response = ResultABC
            /\ (script > 3 => ~articles_changed)
         THEN script + 1
    ELSE IF script = 8 THEN 8
    ELSE -1

\* What a sample of the page can show.  A free page shows anything.  A
\* steady page, from the first sample after generation start was observed,
\* shows idle indicators and one article count and one text longer than the
\* floor, the same in every sample.
SampledBefore == last_response_text # EmptyText

\* chatgpt.py 433-452: the query returns what it found, and False when it
\* raised
is_generating(indicators) == indicators = "active"

\* what the indicator query of a sample meets; it may raise on a faulty page
SampleIndicators ==
    IF detector = "steady" THEN {"idle"}
    ELSE IF detector = "faulty" THEN {"active", "idle", "raises"}
    ELSE {"active", "idle"}

SampleCounts ==
    IF detector = "steady" /\ SampledBefore THEN {last_article_count}
    ELSE 0..MaxArticles

SampleTexts ==
    IF detector = "steady"
    THEN IF SampledBefore THEN {last_response_text}
         ELSE { LongText(i) : i \in 1..MaxTexts }
    ELSE PageTexts

\* chatgpt.py 541-614: the test of the while loop, then either the timeout
\* return or one iteration with its sleep
Stabilization ==
    /\ apc = "wfr_stabilize"
    /\ IF ~(elapsed < max_wait_per_prompt)
       THEN \E final \in SampleTexts :
               /\ final_response' = final
               /\ Return(TimeoutResult(final), "timeout")
               /\ UNCHANGED << elapsed, stable_count, last_response_text,
                               last_article_count, reset_from, script,
                               query_failed >>
       ELSE IF shutdown_event
       THEN /\ Return(None, "shutdown")
            /\ UNCHANGED << elapsed, stable_count, last_response_text,
                            last_article_count, reset_from, script,
                            final_response, query_failed >>
       ELSE \E indicators \in SampleIndicators,
               current_article_count \in SampleCounts,
               extracted \in SampleTexts :
               LET generating == is_generating(indicators)
                   current_response == OrEmpty(extracted)
                   articles_changed == current_article_count # last_article_count
                   text_changed == current_response # last_response_text
                   busy == generating \/ articles_changed
                   counted == NextStableCount(generating, articles_changed,
                                              text_changed)
               IN  /\ query_failed' = (indicators = "raises")
                   /\ last_article_count' = current_article_count
                   /\ last_response_text' = current_response
                   /\ reset_from' = IF busy THEN stable_count ELSE -1
                   /\ script' = ScriptAtSample(generating, articles_changed,
                                               current_response)
                   /\ IF ~busy /\ Complete(counted, current_response)
                      THEN /\ stable_count' = counted
                           /\ Return(current_response, "complete")
                           /\ UNCHANGED elapsed
                      ELSE /\ stable_count' =
                                 IF ~busy /\ counted >= required_stable
                                 THEN 0 ELSE counted
                           /\ elapsed' = AfterSleep(check_interval * 1000)
                           /\ UNCHANGED << response, outcome, apc >>
                   /\ UNCHANGED final_response
    /\ UNCHANGED << prompt_number, messages, pap_result,
                    self_baseline_article_count, self_baseline_set,
                    baseline_article_count, polls, generation_started,
                    started_at >>
    /\ AgentFrame

\* chatgpt.py 950-963: no response fails the task; otherwise the pair is
\* appended and the next prompt, if any, is processed.  The locals of the
\* call that returned are gone; what it returned is kept when
\* process_all_prompts returns.
HandleResponse ==
    /\ apc = "wfr_return"
    /\ IF response = None
       THEN /\ pap_result' = "false"
            /\ apc' = "pap_return"
            /\ UNCHANGED << prompt_number, messages, response, outcome,
                            script >>
       ELSE /\ messages' =
                  Append(messages, << prompts[prompt_number], response >>)
            /\ IF prompt_number < Len(prompts)
               THEN /\ prompt_number' = prompt_number + 1
                    /\ apc' = "submit"
                    /\ response' = None
                    /\ outcome' = "none"
                    /\ script' = -1
                    /\ UNCHANGED pap_result
               ELSE /\ pap_result' = "true"
                    /\ apc' = "pap_return"
                    /\ UNCHANGED << prompt_number, response, outcome, script >>
    /\ baseline_article_count' = 0
    /\ polls' = 0
    /\ generation_started' = FALSE
    /\ elapsed' = 0
    /\ stable_count' = 0
    /\ last_response_text' = EmptyText
    /\ last_article_count' = 0
    /\ final_response' = None
    /\ started_at' = 0
    /\ reset_from' = -1
    /\ query_failed' = FALSE
    /\ UNCHANGED << self_baseline_article_count, self_baseline_set >>
    /\ AgentFrame

\* the steps of the agent's coroutine
AgentStep ==
    \/ NavigateToNewChat
    \/ EnterProcessAllPrompts
    \/ SubmitPrompt
    \/ Snapshot
    \/ StartConfirmation
    \/ Stabilization
    \/ HandleResponse

AgentNext ==
    \/ NavigateToNewChat
    \/ EnterProcessAllPrompts
    \/ SubmitPrompt
    \/ Snapshot
    \/ StartConfirmation
    \/ Stabilization
    \/ HandleResponse
    \/ HandleSignal

SpecAgent == AgentInit /\ [][AgentNext]_vars

\* the page is steady from the first sample after generation start: one
\* prompt, any configuration, any start poll, signals as they come
SteadyInit ==
    /\ LoopIdle
    /\ NoLogger
    /\ agent_mode \in BOOLEAN
    /\ max_wait_per_prompt \in {MaxWaitPerPrompt, min_elapsed_sec + MaxWaitPerPrompt}
    /\ check_interval = MaxCheckInterval
    /\ prompts = << 1 >>
    /\ detector = "steady"
    /\ provider = "chatgpt_web"
    /\ NewAgent
    /\ NoSide

SpecSteady == SteadyInit /\ [][AgentNext]_vars

\* the event loop resumes the coroutine whenever its await is over
FairSpecSteady == SpecSteady /\ WF_vars(AgentStep)

\* ===================================================================
\* Properties of wait_for_response
\* ===================================================================
WaitReturned == apc = "wfr_return"

\* wait_for_response has just returned from inside the stabilization loop
DeclaredComplete == WaitReturned /\ outcome = "complete"

\* C14 as stated: wait_for_response declares completion only when the
\* consecutive-stable counter has reached 5, the response is longer than the
\* length floor, and the elapsed-time floor has passed since generation start
\* was observed.
C14_AsStated ==
    DeclaredComplete =>
       /\ stable_count >= required_stable
       /\ response.len > MIN_LENGTH
       /\ elapsed - started_at >= min_elapsed_sec

\* C14 amended: wait_for_response declares completion only when the
\* consecutive-stable counter has reached 5, the response is longer than 50
\* characters, and the elapsed-time floor (300 s in agent mode, else 15 s) has
\* passed since wait_for_response was entered, the max wait not being over;
\* what it returns then is the text of the last sample.
C14_CompletionDeclared ==
    DeclaredComplete =>
       /\ stable_count >= required_stable
       /\ response.len > MIN_LENGTH
       /\ elapsed >= min_elapsed_sec
       /\ elapsed < max_wait_per_prompt
       /\ response = last_response_text
       /\ generation_started

C14_Witness ==
    /\ DeclaredComplete
    /\ stable_count = required_stable
    /\ elapsed = min_elapsed_sec
    /\ elapsed - started_at < min_elapsed_sec

\* C15: a sample of the stabilization loop that shows active indicators or an
\* article count other than the previous sample's leaves the counter at zero,
\* whatever it was; the counter grows by at most one per sample and
\* completion needs it at the threshold, so a busy sample at threshold - 1
\* puts completion at least a full threshold of samples away.
C15_BusySampleResets ==
    [][ /\ (reset_from' >= 0 => stable_count' = 0)
        /\ stable_count' <= stable_count + 1
        /\ (apc = "wfr_stabilize" /\ DeclaredComplete' =>
               /\ stable_count = required_stable - 1
               /\ stable_count' = required_stable
               /\ reset_from' = -1) ]_vars

C15_Witness ==
    /\ apc = "wfr_stabilize"
    /\ reset_from = required_stable - 1
    /\ stable_count = 0

\* C16: when neither active indicators nor an article count above the one
\* taken before the prompt is seen in any of the 60 start polls,
\* wait_for_response returns None and no sample of the stabilization loop was
\* taken; the stabilization loop runs only after generation start was seen.
C16_NoStartNoStabilization ==
    /\ (apc = "wfr_stabilize" => generation_started)
    /\ (apc = "wfr_poll" => ~generation_started /\ polls <= START_POLLS)
    /\ (WaitReturned /\ ~generation_started /\ outcome # "shutdown" =>
           /\ outcome = "no_start"
           /\ polls = START_POLLS
           /\ response = None)
    /\ (~generation_started =>
           /\ last_response_text = EmptyText
           /\ stable_count = 0
           /\ reset_from = -1
           /\ final_response = None)

C16_Witness ==
    /\ WaitReturned
    /\ outcome = "no_start"
    /\ elapsed = Seconds(SETTLE_MS) + START_POLLS * Seconds(POLL_MS)

\* wait_for_response has returned after generation start was observed, and
\* not because of a shutdown signal
ReturnedAfterStart ==
    WaitReturned /\ generation_started /\ outcome # "shutdown"

\* C17 as stated: on a page that is steady once generation start was
\* observed, wait_for_response returns exactly the steady text, after the
\* elapsed-time floor has passed and, when the floor is below the max wait,
\* before the max-wait timeout.
C17_AsStated ==
    ReturnedAfterStart =>
       /\ response = OrEmpty(final_response) \/ response = last_response_text
       /\ response.len > MIN_LENGTH
       /\ (min_elapsed_sec < max_wait_per_prompt =>
              /\ outcome = "complete"
              /\ elapsed >= min_elapsed_sec
              /\ elapsed < max_wait_per_prompt)

\* the steady text came back, by one of the two returns that carry a text
SteadyTextReturned ==
    ReturnedAfterStart =>
       /\ response # None
       /\ response.len > MIN_LENGTH
       /\ outcome \in {"complete", "timeout"}
       /\ (outcome = "complete" =>
              /\ response = last_response_text
              /\ stable_count = required_stable
              /\ elapsed >= min_elapsed_sec
              /\ elapsed < max_wait_per_prompt)
       /\ (outcome = "timeout" =>
              /\ response = final_response
              /\ (SampledBefore => final_response = last_response_text)
              /\ elapsed >= max_wait_per_prompt)

\* C17 amended: on a page that is steady once generation start was observed
\* (idle indicators, one article count, one text longer than 50 characters),
\* and without a shutdown signal, wait_for_response eventually returns
\* exactly the steady text: either it declares completion, at a sample taken
\* at or after the elapsed-time floor and before the max wait is over, or the
\* max wait is over first and the text comes back from the timeout return;
\* the floor being below the max wait does not exclude the second.
C17_SteadyEventuallyReturned ==
    /\ [] SteadyTextReturned
    /\ (apc \in {"wfr_poll", "wfr_stabilize"} ~> WaitReturned)

C17_Witness ==
    /\ ReturnedAfterStart
    /\ outcome = "complete"
    /\ response = LongText(1)
    /\ started_at > Seconds(SETTLE_MS)
    /\ min_elapsed_sec < max_wait_per_prompt

\* the samples [not generating, generating, generating, "Result ABC" five
\* times] have all been taken, for a task with one prompt
ScenarioConsumed == Len(prompts) = 1 /\ script = 8

\* a text of 50 characters or fewer is never what wait_for_response returns
ShortTextNeverReturned == response \notin { ResultABC, FloorText, EmptyText }

\* C18: for a task with one prompt and no upload, once the detector has
\* shown [not generating, generating, generating, 5 stable samples of
\* "Result ABC"], wait_for_response has returned "Result ABC" and
\* process_all_prompts returns True.
C18_ScenarioSucceeds ==
    ScenarioConsumed =>
       /\ apc \in {"wfr_return", "pap_return"}
       /\ response = ResultABC
       /\ (apc = "pap_return" => pap_result = "true")

\* C19: the session baseline is stored by the first wait_for_response call
\* after navigation, as the article count that call took, and no later call
\* changes it, whatever count that call takes.
C19_BaselineStoredOnce ==
    [][ /\ (self_baseline_set =>
               /\ self_baseline_set'
               /\ self_baseline_article_count' = self_baseline_article_count)
        /\ (~self_baseline_set /\ self_baseline_set' =>
               /\ apc = "wfr_entry"
               /\ prompt_number = 1
               /\ self_baseline_article_count' = baseline_article_count')
        /\ (apc = "wfr_entry" /\ apc' # apc => self_baseline_set') ]_vars

C19_Witness ==
    /\ prompt_number = 2
    /\ apc = "wfr_poll"
    /\ self_baseline_set
    /\ baseline_article_count # self_baseline_article_count

\* C20: the timeout return is taken exactly when the loop test finds the max
\* wait over, whether or not a sample was ever stable; it extracts the
\* response once more and returns that text if it is longer than 50
\* characters, else None.
C20_TimeoutReturnsPartial ==
    [][ /\ (apc = "wfr_stabilize" /\ apc' # apc
              /\ ~(elapsed < max_wait_per_prompt) =>
               /\ WaitReturned'
               /\ outcome' = "timeout"
               /\ response' =
                     (IF final_response'.len > MIN_LENGTH
                      THEN final_response' ELSE None))
        /\ (apc = "wfr_stabilize" /\ WaitReturned' /\ outcome' = "timeout" =>
               ~(elapsed < max_wait_per_prompt)) ]_vars

C20_Witness ==
    /\ WaitReturned
    /\ outcome = "timeout"
    /\ ~shutdown_event
    /\ response = LongText(1)
    /\ last_response_text = ResultABC
    /\ stable_count < required_stable

\* ===================================================================
\* Both providers, process_all_prompts looked into: submit_prompt of
\* ChatGPTWebAgent with its confirmation loop (agents/chatgpt.py), and
\* process_all_prompts, submit_prompt and wait_for_response of
\* ClaudeWebAgent (agents/claude.py)
\* ===================================================================
Providers == { "chatgpt_web", "claude_web" }

CONFIRM_POLLS   == 30      \* iterations of the send-confirmation loop

\* runner.py 479-489: the logger of the attempt, its task started, wired
\* into the agent
OpenTaskLogger ==
    /\ completion_logger = 1
    /\ session_data = << >>
    /\ session_files = << session_data >>
    /\ current_task = [NoTask EXCEPT !.attempt_number = 1]
    /\ current_prompt = NoPrompt

\* runner.py 509: Phase 1 is over, the agent is on its page and
\* process_all_prompts is about to be called; the page may fail a query
ProvidersInit ==
    /\ LoopIdle
    /\ OpenTaskLogger
    /\ provider \in Providers
    /\ agent_mode \in BOOLEAN
    /\ max_wait_per_prompt = MaxShortWait
    /\ check_interval = MaxCheckInterval
    /\ prompts \in { [i \in 1..n |-> i] : n \in 0..MaxPrompts }
    /\ detector = "faulty"
    /\ apc = "ready"
    /\ prompt_number = 0
    /\ messages = << >>
    /\ pap_result = "none"
    /\ self_baseline_article_count = 0
    /\ self_baseline_set = FALSE
    /\ NoWait
    /\ NoSubmit
    /\ NoSide

\* process_all_prompts returns False (chatgpt.py 946-947, claude.py 434)
ReturnFalse ==
    /\ pap_result' = "false"
    /\ apc' = "pap_return"

\* what the prompt field and the feature switches do when the prompt is
\* typed: chatgpt.py 351-355 (no input), 376-380 (agent mode not enabled, on
\* the first prompt in agent mode), 415-417 (any other step raises)
SendOutcomes ==
    {"sent", "no_input", "raises"}
       \cup (IF prompt_number = 1 /\ agent_mode THEN {"features_failed"} ELSE {})

\* chatgpt.py 341-396, called at 945: the prompt is typed and sent, and
\* url_before is taken; every failure before the click returns False.  The
\* first prompt is sent from the project page, whose URL has no "/c/".
SubmitSend ==
    /\ apc = "submit"
    /\ submitted' = Append(submitted, prompt_number)
    /\ confirmed' = "none"
    /\ confirm_polls' = 0
    /\ \E sending \in SendOutcomes :
          IF sending = "sent"
          THEN /\ \E in_conversation \in
                       (IF prompt_number = 1 THEN {FALSE} ELSE BOOLEAN) :
                      already_in_conversation' = in_conversation
               /\ submit_result' = "none"
               /\ apc' = "submit_confirm"
               /\ UNCHANGED pap_result
          ELSE /\ submit_result' = "false"
               /\ ReturnFalse
               /\ UNCHANGED already_in_conversation
    /\ UNCHANGED << prompt_number, messages, self_baseline_article_count,
                    self_baseline_set, waitVars, saw_running, ready_samples >>
    /\ UNCHANGED << configVars, sideVars, loopVars, completionVars, agentConfig >>

\* chatgpt.py 399-410: what one pass of the confirmation loop accepts
Confirmation(url_changed, stop_button, indicators) ==
    IF url_changed THEN "url"
    ELSE IF stop_button THEN "stop"
    ELSE IF already_in_conversation /\ is_generating(indicators)
         THEN "generating"
    ELSE "none"

\* submit_prompt returns: its locals are gone
SubmitReturns(value) ==
    /\ submit_result' = value
    /\ confirm_polls' = 0
    /\ already_in_conversation' = FALSE

\* chatgpt.py 397-417: one pass of the confirmation loop with its wait of
\* one second, or the end of the loop; an exception returns False.  The
\* shutdown event is not looked at.
SubmitConfirm ==
    /\ apc = "submit_confirm"
    /\ IF confirm_polls >= CONFIRM_POLLS
       THEN /\ SubmitReturns("false")
            /\ ReturnFalse
            /\ UNCHANGED confirmed
       ELSE \E url_changed \in BOOLEAN, stop_button \in BOOLEAN,
               indicators \in SampleIndicators, raises \in BOOLEAN :
               LET seen == Confirmation(url_changed, stop_button, indicators)
               IN  IF raises
                   THEN /\ SubmitReturns("false")
                        /\ ReturnFalse
                        /\ UNCHANGED confirmed
                   ELSE IF seen # "none"
                   THEN /\ confirmed' = seen
                        /\ SubmitReturns("true")
                        /\ apc' = "wfr_entry"
                        /\ UNCHANGED pap_result
                   ELSE /\ confirm_polls' = confirm_polls + 1
                        /\ UNCHANGED << confirmed, submit_result, apc,
                                        pap_result, already_in_conversation >>
    /\ UNCHANGED << prompt_number, messages, self_baseline_article_count,
                    self_baseline_set, waitVars, submitted, saw_running, ready_samples >>
    /\ UNCHANGED << configVars, sideVars, loopVars, completionVars, agentConfig >>

\* ------------------------------------------------------- agents/claude.py
\* what _extract_last_response of ClaudeWebAgent can return (claude.py
\* 383-412): None, a stripped text, or the empty string from the <main>
\* fallback
ClaudeTexts == { None, EmptyText, ResultABC } \cup { LongText(i) : i \in 1..MaxTexts }

\* the frame of the steps of ClaudeWebAgent that do not call the logger
ClaudeFrame ==
    UNCHANGED << configVars, sideVars, loopVars, agentConfig,
                 self_baseline_article_count, self_baseline_set,
                 baseline_article_count, polls, generation_started,
                 stable_count, last_response_text, last_article_count,
                 final_response, started_at, reset_from, script, query_failed,
                 confirm_polls, already_in_conversation >>

\* claude.py 414-429: no prompts is a failure; files_to_upload is empty
ClaudeEnter ==
    /\ apc = "ready"
    /\ IF prompts = << >>
       THEN /\ ReturnFalse
            /\ UNCHANGED prompt_number
       ELSE /\ prompt_number' = 1
            /\ apc' = "loop_top"
            /\ UNCHANGED pap_result
    /\ UNCHANGED << messages, elapsed, response, outcome, confirmed,
                    submit_result, submitted, saw_running, ready_samples, completionVars >>
    /\ ClaudeFrame

\* claude.py 431-441: the shutdown check of the loop, then start_prompt
ClaudeStartPrompt ==
    /\ apc = "loop_top"
    /\ IF shutdown_event
       THEN /\ ReturnFalse
            /\ UNCHANGED << completionVars >>
       ELSE /\ start_prompt
            /\ apc' = "submit"
            /\ UNCHANGED << pap_result, completion_logger >>
    /\ UNCHANGED << prompt_number, messages, elapsed, response, outcome,
                    confirmed, submit_result, submitted, saw_running, ready_samples >>
    /\ ClaudeFrame

\* claude.py 296-328, called at 443-447: the prompt is typed and the send
\* button clicked (or Enter pressed); True is returned right after, False
\* when the input field is missing or a step raised
ClaudeSubmit ==
    /\ apc = "submit"
    /\ submitted' = Append(submitted, prompt_number)
    /\ confirmed' = "none"
    /\ \E sending \in {"sent", "no_input", "raises"} :
          IF sending = "sent"
          THEN /\ messages' =
                     Append(messages, [role |-> "user",
                                       content |-> prompts[prompt_number]])
               /\ submit_result' = "true"
               /\ elapsed' = 0
               /\ saw_running' = FALSE
               /\ ready_samples' = 0
               /\ apc' = "c_wait"
               /\ UNCHANGED << pap_result, completionVars >>
          ELSE /\ submit_result' = "false"
               /\ end_prompt(FALSE)
               /\ ReturnFalse
               /\ UNCHANGED << messages, elapsed, saw_running, ready_samples,
                               completion_logger >>
    /\ UNCHANGED << prompt_number, response, outcome >>
    /\ ClaudeFrame

\* claude.py 357-367: the fallback when RUNNING was never seen: more than
\* one response block on the page counts as having run
FallbackSawRunning(blocks) == blocks = "several"

\* the READY results of get_state in a row after one more result
ReadyStreak(count, state) ==
    IF state = "ready" THEN (IF count < 2 THEN count + 1 ELSE 2) ELSE 0

\* variant of WaitCompletes: the first READY result after the start is taken
\* as the end, without the second look
WaitCompletes_OneSample(ran, final_state) == ran

\* claude.py 369-376: after a READY result with the start seen, one second
\* later get_state is asked again and READY again is the end
WaitCompletes(ran, final_state) == ran /\ final_state = "ready"

\* claude.py 335-381: the test of the while loop, then either the timeout
\* return or one iteration: the sleep, get_state, and when READY after
\* having run, one more second and the final get_state
ClaudeWaitPoll ==
    /\ apc = "c_wait"
    /\ IF ~(elapsed < max_wait_per_prompt)
       THEN /\ Return(None, "timeout")
            /\ UNCHANGED << elapsed, saw_running, ready_samples, messages >>
       ELSE IF shutdown_event
       THEN /\ Return(None, "shutdown")
            /\ UNCHANGED << elapsed, saw_running, ready_samples, messages >>
       ELSE /\ elapsed' = elapsed + check_interval
            /\ \E state \in AgentState :
                  CASE state = "running" ->
                          /\ saw_running' = TRUE
                          /\ ready_samples' = ReadyStreak(ready_samples, state)
                          /\ UNCHANGED << response, outcome, apc, messages >>
                    [] state = "rate_limited" ->
                          /\ Return(None, "rate_limited")
                          /\ ready_samples' = ReadyStreak(ready_samples, state)
                          /\ UNCHANGED << saw_running, messages >>
                    [] state = "ready" ->
                          \E blocks \in {"several", "one", "raises"},
                             final_state \in AgentState,
                             extracted \in ClaudeTexts :
                             LET ran == saw_running \/ FallbackSawRunning(blocks)
                                 first == ReadyStreak(ready_samples, state)
                             IN  /\ saw_running' = ran
                                 /\ ready_samples' =
                                       IF ran THEN ReadyStreak(first, final_state)
                                       ELSE first
                                 /\ IF WaitCompletes(ran, final_state)
                                    THEN /\ Return(extracted, "complete")
                                         /\ messages' =
                                               IF extracted.len > 0
                                               THEN Append(messages,
                                                       [role |-> "assistant",
                                                        content |-> extracted])
                                               ELSE messages
                                    ELSE UNCHANGED << response, outcome, apc,
                                                      messages >>
                    [] OTHER ->
                          /\ ready_samples' = ReadyStreak(ready_samples, state)
                          /\ UNCHANGED << saw_running, response, outcome, apc,
                                          messages >>
    /\ UNCHANGED << prompt_number, pap_result, confirmed, submit_result,
                    submitted, completionVars >>
    /\ ClaudeFrame

\* variant of NoResponse: every return value counts as a response
NoResponse_Never(value) == FALSE

\* claude.py 450: if response is None
NoResponse(value) == value = None

\* claude.py 449-464: no response ends the prompt as failed and returns
\* False; otherwise the prompt is ended as succeeded and, after two seconds,
\* the loop goes on or process_all_prompts returns True
ClaudeHandleResponse ==
    /\ apc = "wfr_return"
    /\ IF NoResponse(response)
       THEN /\ end_prompt(FALSE)
            /\ ReturnFalse
            /\ UNCHANGED << prompt_number, response, outcome >>
       ELSE /\ end_prompt(TRUE)
            /\ IF prompt_number < Len(prompts)
               THEN /\ prompt_number' = prompt_number + 1
                    /\ apc' = "loop_top"
                    /\ response' = None
                    /\ outcome' = "none"
                    /\ UNCHANGED pap_result
               ELSE /\ pap_result' = "true"
                    /\ apc' = "pap_return"
                    /\ UNCHANGED << prompt_number, response, outcome >>
    /\ elapsed' = 0
    /\ saw_running' = FALSE
    /\ ready_samples' = 0
    /\ UNCHANGED << messages, confirmed, submit_result, submitted,
                    completion_logger >>
    /\ ClaudeFrame

\* runner.py 235-239: create_agent made the agent of the provider
ProvidersNext ==
    \/ provider = "chatgpt_web" /\ EnterProcessAllPrompts
    \/ provider = "chatgpt_web" /\ SubmitSend
    \/ provider = "chatgpt_web" /\ SubmitConfirm
    \/ provider = "chatgpt_web" /\ Snapshot
    \/ provider = "chatgpt_web" /\ StartConfirmation
    \/ provider = "chatgpt_web" /\ Stabilization
    \/ provider = "chatgpt_web" /\ HandleResponse
    \/ provider = "claude_web" /\ ClaudeEnter
    \/ provider = "claude_web" /\ ClaudeStartPrompt
    \/ provider = "claude_web" /\ ClaudeSubmit
    \/ provider = "claude_web" /\ ClaudeWaitPoll
    \/ provider = "claude_web" /\ ClaudeHandleResponse
    \/ HandleSignal

SpecProviders == ProvidersInit /\ [][ProvidersNext]_vars

\* ===================================================================
\* Properties of process_all_prompts and submit_prompt
\* ===================================================================
\* where each provider's agent waits in a loop that could look at the
\* shutdown event: the confirmation loop of submit_prompt, the start loop
\* and the stabilization loop of wait_for_response and the top of the
\* per-prompt loop (ChatGPT); the per-prompt loop and the wait loop (Claude)
BlockingWaits ==
    IF provider = "chatgpt_web"
    THEN { "submit", "submit_confirm", "wfr_poll", "wfr_stabilize" }
    ELSE { "loop_top", "c_wait" }

\* the step aborts: wait_for_response returns None or process_all_prompts
\* returns False
Aborts ==
    \/ apc' = "wfr_return" /\ response' = None
    \/ apc' = "pap_return" /\ pap_result' = "false"

\* C21: once the shutdown event is set, the next step of every blocking
\* wait of the agent (submit confirmation, generation start, stabilization,
\* the per-prompt loop) aborts, so that process_all_prompts returns False
\* within one polling interval
C21_WaitsObserveShutdown ==
    [][(shutdown_event /\ apc \in BlockingWaits)
          => (UNCHANGED agentVars \/ Aborts)]_vars

\* the prompts submitted so far are the first ones of the configuration, in
\* order and once each
SubmittedInOrder ==
    /\ Len(submitted) <= Len(prompts)
    /\ \A k \in 1..Len(submitted) : submitted[k] = k

\* what a step of process_all_prompts may do to the sequence of prompts
PromptStep ==
    \* a prompt is submitted while process_all_prompts runs, and it is the
    \* prompt of the current iteration
    /\ submitted' # submitted
          => /\ pap_result = "none"
             /\ submitted' = Append(submitted, prompt_number)
    \* the loop moves to the next prompt only from a return of
    \* wait_for_response with a response for the prompt submitted last
    /\ (prompt_number >= 1 /\ prompt_number' # prompt_number)
          => /\ prompt_number' = prompt_number + 1
             /\ apc = "wfr_return"
             /\ response # None
             /\ Len(submitted) = prompt_number
    \* a wait that returned None ends process_all_prompts with False
    /\ (apc = "wfr_return" /\ response = None /\ apc' # apc)
          => pap_result' = "false"
    \* True is returned from the last prompt's response
    /\ (pap_result # "true" /\ pap_result' = "true")
          => /\ apc = "wfr_return"
             /\ response # None
             /\ prompt_number = Len(prompts)
             /\ Len(submitted) = Len(prompts)
    \* nothing is submitted after the return
    /\ pap_result # "none" => UNCHANGED << submitted, pap_result >>

\* C22: process_all_prompts submits the prompts in configured order, submits
\* prompt i+1 only after wait_for_response returned a response for prompt
\* i, returns False on the first failed submit or wait without submitting a
\* later prompt, and returns True only when every prompt was submitted and
\* answered
C22_PromptsInOrder ==
    /\ [](SubmittedInOrder /\ (submit_result = "false" => pap_result = "false"))
    /\ [][PromptStep]_vars

\* both prompts of a two-prompt task were submitted and answered
C22_Witness ==
    /\ pap_result = "true"
    /\ Len(prompts) >= 2
    /\ Len(submitted) = Len(prompts)

\* C26: submit_prompt returns True only after it has observed a confirmation
\* that the prompt was accepted (the conversation URL changed, or an
\* indicator of generation), whichever the provider
C26_TrueOnlyAfterConfirmation ==
    submit_result = "true" => confirmed # "none"

\* what holds of ChatGPTWebAgent alone
ChatGPTConfirms ==
    provider = "chatgpt_web" => C26_TrueOnlyAfterConfirmation

\* ===================================================================
\* Phase 1 looked into: navigate_to_new_chat and get_state of both
\* providers (agents/chatgpt.py, agents/claude.py) and the navigation,
\* authentication and rate-limit checks of run_automation
\* (engine/runner.py 404-449)
\* ===================================================================
LOGIN_TIMEOUT   == 300     \* seconds the runner waits for a login
LOGIN_POLL      == 10      \* seconds between two looks at the page

\* What the site serves: nothing ("unreachable": goto raises), a login page
\* of another host, a page of the site with a login button, the chat page,
\* a page without a chat input, Claude's rate-limit notice
ChatGPTPages == { "unreachable", "auth_redirect", "login_button", "ready",
                  "no_input" }

ClaudePages  == { "unreachable", "login_button", "ready", "no_input",
                  "rate_limited" }

PagesOf(p) == IF p = "chatgpt_web" THEN ChatGPTPages ELSE ClaudePages

\* the page requires authentication
NeedsLogin(shown) == shown \in { "auth_redirect", "login_button" }

\* chatgpt.py 150-182: the URL test, then one evaluate; ERROR when it raises
chatgpt_get_state(shown, raises) ==
    IF shown = "auth_redirect" THEN "auth_required"
    ELSE IF raises THEN "error"
    ELSE IF shown = "login_button" THEN "auth_required"
    ELSE IF shown = "ready" THEN "ready"
    ELSE "unknown"

\* claude.py 212-245: rate limit, login button, stop button, input; UNKNOWN
\* when a query raises
claude_get_state(shown, raises) ==
    IF raises THEN "unknown"
    ELSE IF shown = "rate_limited" THEN "rate_limited"
    ELSE IF shown = "login_button" THEN "auth_required"
    ELSE IF shown = "ready" THEN "ready"
    ELSE "unknown"

get_state(shown, raises) ==
    IF provider = "chatgpt_web" THEN chatgpt_get_state(shown, raises)
    ELSE claude_get_state(shown, raises)

\* chatgpt.py 89-148: False when goto raises or the chat input never
\* attaches; True on a login page of another host, when get_state says
\* AUTH_REQUIRED, and when the chat input attaches
chatgpt_navigate_to_new_chat(shown, raises, attached) ==
    IF shown = "unreachable" THEN FALSE
    ELSE IF shown = "auth_redirect" THEN TRUE
    ELSE IF chatgpt_get_state(shown, raises) = "auth_required" THEN TRUE
    ELSE attached

\* claude.py 73-107: False when goto raises and when get_state says
\* AUTH_REQUIRED; True otherwise (the feature switches swallow their errors)
claude_navigate_to_new_chat(shown, raises) ==
    IF shown = "unreachable" THEN FALSE
    ELSE claude_get_state(shown, raises) # "auth_required"

\* the chat input of a page: the chat page has it, a page of the site with a
\* login button may have it
InputAttached(shown) ==
    IF shown = "ready" THEN {TRUE}
    ELSE IF shown = "login_button" THEN BOOLEAN
    ELSE {FALSE}

\* runner.py 396-402: the agent of the provider is created on a new page
Phase1Init ==
    /\ LoopIdle
    /\ NoLogger
    /\ agent_mode = TRUE
    /\ max_wait_per_prompt = MaxWaitPerPrompt
    /\ check_interval = MaxCheckInterval
    /\ prompts = << >>
    /\ detector = "free"
    /\ provider \in Providers
    /\ NewAgent
    /\ p1pc = "navigate"
    /\ page \in PagesOf(provider)
    /\ nav_result = "none"
    /\ auth_state = "none"
    /\ login_elapsed = 0
    /\ login_clock = 0
    /\ auth_saved = "none"
    /\ phase1_status = "none"
    /\ NoDownload
    /\ NoBatch
    /\ NoExtra

Phase1Frame ==
    UNCHANGED << configVars, loopVars, completionVars, agentConfig, apc,
                 prompt_number, messages, pap_result, waitVars, submitVars,
                 downloadVars, batchVars, extraVars >>

\* raise PipelineError(status): Phase 1 is over
Phase1Fails(status) ==
    /\ phase1_status' = status
    /\ p1pc' = "failed"

\* runner.py 404-409 with navigate_to_new_chat of the provider.  ChatGPT's
\* resets the session baseline first (chatgpt.py 92-93).
NavigatePage ==
    /\ p1pc = "navigate"
    /\ \E raises \in BOOLEAN, attached \in InputAttached(page) :
          LET ok == IF provider = "chatgpt_web"
                    THEN chatgpt_navigate_to_new_chat(page, raises, attached)
                    ELSE claude_navigate_to_new_chat(page, raises)
          IN  /\ nav_result' = IF ok THEN "true" ELSE "false"
              /\ IF ok
                 THEN p1pc' = "auth_check" /\ UNCHANGED phase1_status
                 ELSE Phase1Fails(NAVIGATION_FAILED)
    /\ self_baseline_article_count' =
          IF provider = "chatgpt_web" THEN 0 ELSE self_baseline_article_count
    /\ self_baseline_set' =
          IF provider = "chatgpt_web" THEN FALSE ELSE self_baseline_set
    /\ UNCHANGED << page, auth_state, login_elapsed, login_clock, auth_saved >>
    /\ Phase1Frame

\* runner.py 443-449, after the login wait or without it: not READY after
\* the wait is AUTH_FAILED, RATE_LIMITED fails, anything else passes
AfterLogin(after_wait, seen) ==
    IF after_wait /\ seen # "ready" THEN Phase1Fails(AUTH_FAILED)
    ELSE IF seen = "rate_limited" THEN Phase1Fails(RATE_LIMITED)
    ELSE /\ phase1_status' = "passed"
         /\ p1pc' = "passed"

\* runner.py 411-420: get_state; AUTH_REQUIRED starts the login wait
AuthState ==
    /\ p1pc = "auth_check"
    /\ \E raises \in BOOLEAN :
          LET seen == get_state(page, raises)
          IN  /\ auth_state' = seen
              /\ IF seen = "auth_required"
                 THEN /\ p1pc' = "login_wait"
                      /\ UNCHANGED phase1_status
                 ELSE AfterLogin(FALSE, seen)
    /\ login_elapsed' = 0
    /\ UNCHANGED << page, nav_result, login_clock, auth_saved, self_baseline_article_count,
                    self_baseline_set >>
    /\ Phase1Frame

\* runner.py 426-435: off the provider's site the loop navigates back before
\* it looks at the state: page.goto returns and two seconds of settling
\* follow, or goto raises at its timeout
GOTO_SETTLE == 2

GOTO_TIMEOUT == 15

OffSite(shown) == shown = "auth_redirect"

\* the seconds the navigation back takes: none on the site or when the user
\* left the login page during the sleep; off the site goto either returns
\* and the page settles, or it raises at its timeout and the page stays
RetryCosts(before, shown) ==
    IF ~OffSite(before) THEN { 0 }
    ELSE IF shown = before THEN { GOTO_SETTLE, GOTO_TIMEOUT }
    ELSE { 0, GOTO_SETTLE }

\* manager.py 249-264: save_auth_state writes the storage state or logs the
\* failure; it never raises
SaveOutcomes == { "saved", "failed" }

\* runner.py 422: the test of the while loop fails
LoginExpired == ~(login_elapsed < LOGIN_TIMEOUT)

\* runner.py 421-444: the test of the while loop, then either the end of
\* the wait or ten seconds of sleep, during which the user may log in, the
\* navigation back to the site, and get_state; READY saves the auth state
\* and ends the wait
LoginWait ==
    /\ p1pc = "login_wait"
    /\ IF LoginExpired
       THEN /\ AfterLogin(TRUE, auth_state)
            /\ UNCHANGED << page, auth_state, login_elapsed, login_clock,
                            auth_saved >>
       ELSE \E shown \in { page, "ready" }, raises \in BOOLEAN :
            \E cost \in RetryCosts(page, shown) :
               LET seen == get_state(shown, raises)
               IN  /\ page' = shown
                   /\ login_elapsed' = login_elapsed + LOGIN_POLL
                   /\ login_clock' = login_clock + LOGIN_POLL + cost
                   /\ auth_state' = seen
                   /\ IF seen = "ready"
                      THEN /\ \E saved \in SaveOutcomes : auth_saved' = saved
                           /\ AfterLogin(TRUE, seen)
                      ELSE UNCHANGED << p1pc, phase1_status, auth_saved >>
    /\ UNCHANGED << nav_result, self_baseline_article_count,
                    self_baseline_set >>
    /\ Phase1Frame

Phase1Next ==
    \/ NavigatePage
    \/ AuthState
    \/ LoginWait

SpecPhase1 == Phase1Init /\ [][Phase1Next]_vars


\* -------------------------------------------------- properties of Phase 1
\* C25: navigate_to_new_chat of every provider returns True when the page
\* it loaded requires authentication, so that an unauthenticated session
\* fails Phase 1 as AUTH_FAILED and never as NAVIGATION_FAILED
C25_AuthPageNavigates ==
    (NeedsLogin(page) /\ nav_result # "none")
       => (nav_result = "true" /\ phase1_status # NAVIGATION_FAILED)

\* ------------------------------------------ properties of the detector
\* C27: a detector query that fails is never taken as evidence that the
\* generation has finished: get_state does not answer READY when its query
\* raises, and a stabilization sample whose indicator query raised does not
\* increment the count of consecutive stable samples
C27_FailedQueryNotStable ==
    /\ [](\A shown \in ChatGPTPages : chatgpt_get_state(shown, TRUE) # "ready")
    /\ [][(apc = "wfr_stabilize" /\ query_failed')
             => stable_count' <= stable_count]_vars

\* what holds of get_state alone, for both providers
GetStateNeverReadyOnFailure ==
    /\ \A shown \in ChatGPTPages : chatgpt_get_state(shown, TRUE) # "ready"
    /\ \A shown \in ClaudePages : claude_get_state(shown, TRUE) # "ready"

\* ===================================================================
\* Download and validation looked into: the steps of run_automation after
\* process_all_prompts returned True (engine/runner.py 538-612) with
\* validate_excel_file (validators/excel.py)
\* ===================================================================
\* runner.py 538: the first attempt of a task without time limits, Phase 1
\* passed, the logger open on its task, process_all_prompts returned True
DownloadInit ==
    /\ max_agent_attempts = MaxAgentAttempts
    /\ max_total_attempts = MaxTotalAttempts
    /\ max_sec_per_task = 0
    /\ max_sec_per_attempt = 0
    /\ no_hold = FALSE
    /\ upload_to_cloud = FALSE
    /\ pc = "download"
    /\ agent_attempts = 0
    /\ total_attempts = 1
    /\ agent_json_paths = << >>
    /\ task_success = FALSE
    /\ now = task_wall_start
    /\ shutdown_event = FALSE
    /\ attempt_timed_out = FALSE
    /\ guard_task = "finished"
    /\ guard_deadline = 0
    /\ session_open = TRUE
    /\ attempt = [NewAttempt EXCEPT !.passed = TRUE]
    /\ hist = [started |-> 1, passed |-> 1, agent_failed |-> 0,
               pipeline_failed |-> 0]
    /\ ext_signalled = FALSE
    /\ halt_reason = "none"
    /\ OpenTaskLogger
    /\ NoAgent
    /\ NoPhase1
    /\ NoDownload
    /\ NoBatch
    /\ NoExtra

\* a step of the download logic that closes nothing
DownloadStep(next) ==
    /\ pc' = next
    /\ UNCHANGED << configVars, phase1Vars, batchVars, extraVars, agentVars,
                    completionVars, agent_attempts, total_attempts,
                    agent_json_paths, task_success, now, shutdown_event,
                    attempt_timed_out, guard_task, guard_deadline,
                    session_open, attempt, ext_signalled, halt_reason, hist >>

\* runner.py 540-542: download_all_artifacts returns its files or raises
DownloadArtifacts ==
    /\ pc = "download"
    /\ \/ ExceptEntry
       \/ \E files \in Downloads :
             /\ files_downloaded' = files
             /\ UNCHANGED << excel_files, validated, val_status, renamed >>
             /\ DownloadStep("dl_check")

\* runner.py 544-576: no file, or no spreadsheet among the files, is
\* DOWNLOAD_FAILED
CheckDownloads ==
    /\ pc = "dl_check"
    /\ excel_files' =
          IF files_downloaded = << >> THEN excel_files
          ELSE SelectSeq(files_downloaded, IsExcel)
    /\ IF excel_files' = << >>
       THEN /\ val_status' = DOWNLOAD_FAILED
            /\ DownloadStep("dl_close")
       ELSE /\ UNCHANGED val_status
            /\ DownloadStep("dl_validate")
    /\ UNCHANGED << files_downloaded, validated, renamed >>

\* variant of StopsValidation: the loop goes on after an invalid file
StopsValidation_Never(is_valid) == FALSE

\* runner.py 580, 588: if not is_valid: ... break
StopsValidation(is_valid) == ~is_valid

\* runner.py 577-588: one iteration of the validation loop
ValidateFile ==
    /\ pc = "dl_validate"
    /\ LET fpath == excel_files[Len(validated) + 1]
           status == validate_excel_file(fpath)
       IN  /\ validated' = Append(validated, fpath)
           /\ IF StopsValidation(status = SUCCESS)
              THEN /\ val_status' = status
                   /\ DownloadStep("dl_close")
              ELSE /\ UNCHANGED val_status
                   /\ DownloadStep(IF Len(validated') = Len(excel_files)
                                   THEN "dl_rename" ELSE "dl_validate")
    /\ UNCHANGED << files_downloaded, excel_files, renamed >>

\* runner.py 545-547, 563-565, 581-583: the attempt is closed as failed
CloseFailed ==
    /\ pc = "dl_close"
    /\ AgentFailure(val_status, "cleanup")

\* runner.py 599-606: rename_solution_file moves every spreadsheet, or raises
RenameFiles ==
    /\ pc = "dl_rename"
    /\ \/ ExceptEntry
       \/ /\ renamed' = TRUE
          /\ UNCHANGED << files_downloaded, excel_files, validated,
                          val_status >>
          /\ DownloadStep("dl_success")

\* runner.py 608-612
CloseSuccess ==
    /\ pc = "dl_success"
    /\ RecordSuccess

DownloadNext ==
    \/ DownloadArtifacts
    \/ CheckDownloads
    \/ ValidateFile
    \/ CloseFailed
    \/ RenameFiles
    \/ CloseSuccess

SpecDownload == DownloadInit /\ [][DownloadNext]_vars

\* ------------------------------------- properties of the download logic
\* the spreadsheets among the downloaded files, in download order
Spreadsheets == SelectSeq(files_downloaded, IsExcel)

Invalid(fpath) == validate_excel_file(fpath) # SUCCESS

\* the attempt was closed by the download logic
ClosedAfterDownload == pc \in { "cleanup", "history" }

\* C23: after a successful process_all_prompts the attempt is closed as
\* DOWNLOAD_FAILED when nothing was downloaded or no downloaded file is a
\* spreadsheet; otherwise the spreadsheets are validated in download order
\* and the attempt is closed with the status of the first invalid one, the
\* later ones not being validated; only when every spreadsheet is valid are
\* the files renamed and the record closed as SUCCESS
C23_DownloadVerdict ==
    \* validation goes through the spreadsheets in download order and never
    \* past an invalid one
    /\ Len(validated) <= Len(Spreadsheets)
    /\ \A k \in 1..Len(validated) :
          /\ validated[k] = Spreadsheets[k]
          /\ k < Len(validated) => ~Invalid(validated[k])
    /\ renamed =>
          /\ validated = Spreadsheets
          /\ Spreadsheets # << >>
          /\ \A k \in 1..Len(validated) : ~Invalid(validated[k])
    /\ ClosedAfterDownload =>
          /\ LastRecord(session_files).task_status = attempt.status
          /\ current_task = NoTask
          /\ IF Spreadsheets = << >>
             THEN /\ attempt.status = DOWNLOAD_FAILED
                  /\ validated = << >>
                  /\ ~renamed
             ELSE IF \E k \in 1..Len(Spreadsheets) : Invalid(Spreadsheets[k])
             THEN /\ validated # << >>
                  /\ Invalid(Last(validated))
                  /\ attempt.status = validate_excel_file(Last(validated))
                  /\ ~renamed
             ELSE /\ attempt.status = SUCCESS
                  /\ renamed
                  /\ pc = "history"

\* a corrupt spreadsheet was found with another one still to validate:
\* the attempt is closed FILE_CORRUPTED and the other was not looked at
C23_Witness ==
    /\ pc = "cleanup"
    /\ attempt.status = FILE_CORRUPTED
    /\ Len(validated) < Len(Spreadsheets)

\* ===================================================================
\* The retry loop of a task that may upload its results
\* (engine/runner.py 642-696, storage/uploader.py)
\* ===================================================================
\* the retry loop with every limit set, cloud upload configured or not
UploadInit ==
    /\ max_agent_attempts = MaxAgentAttempts
    /\ max_total_attempts = MaxTotalAttempts
    /\ max_sec_per_task = MaxSecPerTask
    /\ max_sec_per_attempt = MaxSecPerAttempt
    /\ no_hold \in BOOLEAN
    /\ upload_to_cloud \in BOOLEAN
    /\ LoopInit
    /\ NoLogger
    /\ NoAgent
    /\ NoSide

UploadNext ==
    \/ Next
    \/ UploadResults

SpecUpload == UploadInit /\ [][UploadNext]_vars

\* C24: upload_results is invoked only after the record of the attempt was
\* closed as SUCCESS and only if upload_to_cloud is set, and whatever the
\* upload does the attempt goes on as a success: no failure of the upload
\* sends it to the exception handler, which would start another attempt
C24_UploadNeverReverts ==
    /\ [](pc = "cloud_upload" =>
             /\ upload_to_cloud
             /\ attempt.status = SUCCESS
             /\ LastRecord(session_files).task_status = SUCCESS)
    /\ [][(pc = "cloud_upload" /\ pc' # pc) => pc' = AfterUpload]_vars

\* what holds instead: the upload is gated, and it either goes on or raises
\* into the exception handler
UploadGated ==
    pc = "cloud_upload" =>
       /\ upload_to_cloud
       /\ attempt.status = SUCCESS
       /\ LastRecord(session_files).task_status = SUCCESS

\* ===================================================================
\* The batch orchestrator (engine/batch.py): run_all_tasks, run_task with
\* the subprocess of a task, prepare_task_files and the signal handler.
\* The orchestrator is synchronous: it is suspended only while it reads the
\* output of the subprocess and while it waits for it to exit.  dry_run is
\* False.
\* ===================================================================
NoTimeout == 0

\* a subprocess that has exited, by its return code
Exited == { "exited_0", "exited_1" }

\* batch.py 588-596: the arguments of run_all_tasks; a negative index is not
\* considered
BatchInit ==
    /\ tasks \in 0..MaxTasks
    /\ start_index \in 0..MaxTasks
    /\ end_index \in {NoEnd} \cup 0..(MaxTasks + 1)
    /\ continue_on_failure \in BOOLEAN
    /\ fetch_from_db \in BOOLEAN
    /\ timeout \in {NoTimeout, MaxTaskTimeout}
    /\ handler_installed \in BOOLEAN
    /\ bpc = "called"
    /\ task_index = 0
    /\ results = [total |-> 0, succeeded |-> 0, failed |-> 0, skipped |-> 0]
    /\ current_process = "none"
    /\ stdout_open = FALSE
    /\ waited = 0
    /\ run_log = << >>
    /\ LoopIdle
    /\ NoLogger
    /\ NoAgent
    /\ NoPhase1
    /\ NoDownload
    /\ NoExtra

BatchFrame ==
    UNCHANGED << configVars, loopVars, completionVars, agentVars, phase1Vars,
                 downloadVars, extraVars, batchConfig >>

\* batch.py 611-614: tasks[start_index:end_index], by its first index and
\* its length
SliceEnd == Min(IF end_index = NoEnd THEN tasks ELSE end_index, tasks)

SliceLen ==
    IF Min(start_index, tasks) < SliceEnd
    THEN SliceEnd - Min(start_index, tasks) ELSE 0

\* batch.py 611-625
EnterRunAllTasks ==
    /\ bpc = "called"
    /\ results' = [results EXCEPT !.total = SliceLen]
    /\ task_index' = start_index
    /\ bpc' = "loop"
    /\ UNCHANGED << current_process, stdout_open, waited, run_log >>
    /\ BatchFrame

\* batch.py 647, 671: len(tasks_to_run) - i - 1
Remaining == SliceLen - (task_index - start_index) - 1

\* variant of StopsBatch: a failure never ends the batch
StopsBatch_Never(success) == FALSE

\* batch.py 665-672: a failure under the stop-on-failure policy
StopsBatch(success) == ~success /\ ~continue_on_failure

\* batch.py 653-672: run_task returned (or raised an Exception, which counts
\* as False): the outcome is counted, and the loop goes on or is left
TaskEnds(success, how) ==
    /\ run_log' = Append(run_log, [index |-> task_index, success |-> success,
                                   how |-> how])
    /\ results' =
          IF success THEN [results EXCEPT !.succeeded = @ + 1]
          ELSE IF StopsBatch(success)
          THEN [results EXCEPT !.failed = @ + 1, !.skipped = @ + Remaining]
          ELSE [results EXCEPT !.failed = @ + 1]
    /\ IF StopsBatch(success)
       THEN bpc' = "returned" /\ UNCHANGED task_index
       ELSE bpc' = "loop" /\ task_index' = task_index + 1

\* what prepare_task_files says (batch.py 276-317 with 170-230): the files
\* are staged, or the task is to be skipped because of a database error or
\* because the task is not found (or deprecated)
Staging ==
    IF fetch_from_db THEN { "staged", "db_error", "not_found" }
    ELSE { "staged" }

\* batch.py 627-547: the test of the for loop; then run_task up to Popen:
\* staging, the merged configuration written to a temporary file (which may
\* raise), and the subprocess started with its output piped
RunTask ==
    /\ bpc = "loop"
    /\ IF task_index - start_index >= SliceLen
       THEN /\ bpc' = "returned"
            /\ UNCHANGED << task_index, results, current_process,
                            stdout_open, run_log >>
       ELSE \E staging \in Staging, raises \in BOOLEAN :
               IF staging # "staged"
               THEN /\ TaskEnds(FALSE, "staging")
                    /\ UNCHANGED << current_process, stdout_open >>
               ELSE IF raises
               THEN /\ TaskEnds(FALSE, "exception")
                    /\ UNCHANGED << current_process, stdout_open >>
               ELSE /\ current_process' = "running"
                    /\ stdout_open' = TRUE
                    /\ bpc' = "stream"
                    /\ UNCHANGED << task_index, results, run_log >>
    /\ waited' = 0
    /\ BatchFrame

\* the subprocess exits with return code 0 or not 0; its pipe is closed
ChildExits ==
    /\ current_process = "running"
    /\ \E code \in Exited : current_process' = code
    /\ stdout_open' = FALSE
    /\ UNCHANGED << bpc, task_index, results, waited, run_log >>
    /\ BatchFrame

\* the subprocess closes its output and goes on running
ChildClosesOutput ==
    /\ current_process = "running"
    /\ stdout_open
    /\ stdout_open' = FALSE
    /\ UNCHANGED << bpc, task_index, results, current_process, waited,
                    run_log >>
    /\ BatchFrame

\* the subprocess hangs: from now on it neither exits nor writes nor closes
\* its output
ChildHangs ==
    /\ current_process = "running"
    /\ current_process' = "hung"
    /\ UNCHANGED << bpc, task_index, results, stdout_open, waited, run_log >>
    /\ BatchFrame

\* batch.py 549-554: for line in iter(stdout.readline, ""): the loop ends at
\* the end of the output, that is when the pipe is closed; an exception
\* while reading (a line that cannot be decoded) ends it as well
StreamOutput ==
    /\ bpc = "stream"
    /\ \/ ~stdout_open
       \/ stdout_open /\ current_process = "running"
    /\ bpc' = "wait"
    /\ waited' = 0
    /\ UNCHANGED << task_index, results, current_process, stdout_open,
                    run_log >>
    /\ BatchFrame

\* a second passes while wait(timeout) waits
WaitTick ==
    /\ bpc = "wait"
    /\ current_process \notin Exited
    /\ timeout # NoTimeout
    /\ waited < timeout
    /\ waited' = waited + 1
    /\ UNCHANGED << bpc, task_index, results, current_process, stdout_open,
                    run_log >>
    /\ BatchFrame

\* batch.py 556-578: wait(timeout) returns the return code, or raises
\* TimeoutExpired when the timeout has passed: the subprocess is then
\* terminated (killed after five more seconds) and run_task returns False
WaitChild ==
    /\ bpc = "wait"
    /\ IF current_process \in Exited
       THEN /\ TaskEnds(current_process = "exited_0", "exit")
            /\ current_process' = "none"
            /\ UNCHANGED stdout_open
       ELSE /\ timeout # NoTimeout
            /\ waited >= timeout
            /\ TaskEnds(FALSE, "timeout")
            /\ current_process' = "terminated"
            /\ stdout_open' = FALSE
    /\ waited' = 0
    /\ BatchFrame

\* batch.py 645-648: Ctrl+C while run_task runs, no handler registered:
\* KeyboardInterrupt, the tasks after this one are counted as skipped and
\* the loop is left
Interrupt ==
    /\ ~handler_installed
    /\ bpc \in { "stream", "wait" }
    /\ results' = [results EXCEPT !.skipped = @ + Remaining]
    /\ bpc' = "interrupted"
    /\ UNCHANGED << task_index, current_process, stdout_open, waited,
                    run_log >>
    /\ BatchFrame

\* batch.py 48-58, registered by main (746-747): the subprocess is
\* terminated and the orchestrator exits
SignalHandler ==
    /\ handler_installed
    /\ bpc \notin { "returned", "interrupted", "exited" }
    /\ current_process' =
          IF current_process \in { "running", "hung" } THEN "terminated"
          ELSE current_process
    /\ stdout_open' = FALSE
    /\ bpc' = "exited"
    /\ UNCHANGED << task_index, results, waited, run_log >>
    /\ BatchFrame

\* the steps of the orchestrator itself
BatchStep ==
    \/ EnterRunAllTasks
    \/ RunTask
    \/ StreamOutput
    \/ WaitTick
    \/ WaitChild

BatchNext ==
    \/ EnterRunAllTasks
    \/ RunTask
    \/ StreamOutput
    \/ WaitTick
    \/ WaitChild
    \/ ChildExits
    \/ ChildClosesOutput
    \/ ChildHangs
    \/ Interrupt
    \/ SignalHandler

SpecBatch == BatchInit /\ [][BatchNext]_vars

\* the orchestrator keeps running and time passes; the subprocess and the
\* user are under no obligation
FairSpecBatch == SpecBatch /\ WF_vars(BatchStep)


\* -------------------------------------------------------------------
\* The subprocess of the current task hangs while a timeout is set
HangsWithTimeout ==
    /\ current_process = "hung"
    /\ timeout # NoTimeout
    /\ bpc \in { "stream", "wait" }

\* run_task ended for task k because its timeout expired
TimedOut(k) ==
    \E j \in 1..Len(run_log) :
        run_log[j].index = k /\ run_log[j].how = "timeout"

\* the run was stopped from the keyboard or by a signal
BatchStopped == bpc \in { "interrupted", "exited" }

\* C28: with a timeout set, a subprocess that hangs is terminated once the
\* timeout has expired and its task is recorded as failed, so that
\* run_all_tasks goes on with the next task (unless the user stops the
\* batch)
C28_HangIsTimedOut ==
    \A k \in 0..MaxTasks :
        (HangsWithTimeout /\ task_index = k)
           ~> (BatchStopped \/ (TimedOut(k) /\ bpc \in { "loop", "returned" }))

\* the hang that wait(timeout) does end: the subprocess had closed its
\* output before it hung
HangEndedByTimeout ==
    /\ run_log # << >>
    /\ run_log[Len(run_log)].how = "timeout"
    /\ current_process = "terminated"
    /\ results.failed > 0

\* -------------------------------------------------------------------
\* the number of entries of run_log that satisfy Test
CountLogged(Test(_)) == Cardinality({ j \in 1..Len(run_log) : Test(run_log[j]) })

StagingFailed(entry) == entry.how = "staging"

ExecutionFailed(entry) == ~entry.success /\ entry.how # "staging"

\* C29: a task whose file staging fails is counted under 'skipped' and not
\* under 'failed': 'failed' counts the execution failures only
C29_StagingFailureIsSkip ==
    /\ results.failed = CountLogged(ExecutionFailed)
    /\ results.skipped >= CountLogged(StagingFailed)

\* -------------------------------------------------------------------
\* run_all_tasks has returned its results
BatchReturned == bpc \in { "returned", "interrupted" }

\* the tasks run so far are those of the range, from start_index on, in
\* index order and below end_index and the number of tasks
InIndexOrder ==
    \A j \in 1..Len(run_log) :
        /\ run_log[j].index = start_index + j - 1
        /\ run_log[j].index < tasks
        /\ end_index # NoEnd => run_log[j].index < end_index

\* while a task runs, every task before it has ended and no other has begun
OneAtATime ==
    bpc \in { "stream", "wait" }
       => /\ Len(run_log) = task_index - start_index
          /\ Len(run_log) < SliceLen

\* stop on the first failure: nothing runs after a failed task, and the
\* tasks after it are counted as skipped
StopOnFirstFailure ==
    ~continue_on_failure
       => /\ \A j \in 1..(Len(run_log) - 1) : run_log[j].success
          /\ (bpc = "returned" /\ results.failed > 0)
                => /\ results.failed = 1
                   /\ results.skipped = SliceLen - Len(run_log)
          /\ (bpc = "returned" /\ results.failed = 0)
                => Len(run_log) = SliceLen

\* continue past failures: run_task is called for every task of the range,
\* unless the run is interrupted from the keyboard, which counts the tasks
\* after the interrupted one as skipped
ContinuePastFailures ==
    continue_on_failure
       => /\ bpc = "returned"
                => Len(run_log) = SliceLen /\ results.skipped = 0
          /\ bpc = "interrupted"
                => results.skipped = SliceLen - Len(run_log) - 1

\* C30 (amended): run_all_tasks runs the tasks of [start_index, end_index)
\* one at a time in index order; under stop-on-first-failure nothing runs
\* after the first failed task and the tasks after it are counted as
\* skipped; under continue-past-failures every task of the range is run
\* unless the run is interrupted from the keyboard
C30_RangeInOrderByPolicy ==
    /\ InIndexOrder
    /\ OneAtATime
    /\ StopOnFirstFailure
    /\ ContinuePastFailures

\* C30 as stated: under continue-past-failures every task of the range has
\* been run when run_all_tasks returns
C30_AsStated ==
    /\ InIndexOrder
    /\ OneAtATime
    /\ (~continue_on_failure)
          => \A j \in 1..(Len(run_log) - 1) : run_log[j].success
    /\ (continue_on_failure /\ BatchReturned) => Len(run_log) = SliceLen

\* a batch stopped by the failure of its second task, with a task skipped
C30_Witness ==
    /\ ~continue_on_failure
    /\ bpc = "returned"
    /\ Len(run_log) = 2
    /\ run_log[1].success
    /\ ~run_log[2].success
    /\ results.skipped = 1
    /\ end_index = NoEnd

\* -------------------------------------------------------------------
\* the number of the two status sets a status belongs to
SetsHolding(status) ==
    (IF status \in AGENT_STATUSES THEN 1 ELSE 0)
       + (IF status \in PIPELINE_STATUSES THEN 1 ELSE 0)

\* C33: every TaskStatus value belongs to exactly one of AGENT_STATUSES and
\* PIPELINE_STATUSES, the two sets hold TaskStatus values only, and so does
\* every status the retry loop gives an attempt
C33_StatusPartition ==
    /\ \A status \in TaskStatus : SetsHolding(status) = 1
    /\ AGENT_STATUSES \cup PIPELINE_STATUSES \subseteq TaskStatus
    /\ attempt.status # "none" => SetsHolding(attempt.status) = 1

\* an attempt of the retry loop that ended with UNKNOWN, classified as a
\* pipeline status
C33_Witness ==
    /\ attempt.ended
    /\ attempt.status = UNKNOWN
    /\ attempt.status \in PIPELINE_STATUSES
    /\ attempt.status \notin AGENT_STATUSES


\* -------------------------------------------------------------------
\* C38: the aggregate run_all_tasks returns satisfies succeeded + failed +
\* skipped = total = the number of tasks of the selected range on every exit
\* path, and the per-task log has one entry per task counted as succeeded or
\* failed
C38_AggregateAddsUp ==
    BatchReturned
       => /\ results.total = SliceLen
          /\ results.succeeded + results.failed + results.skipped
                = results.total
          /\ Len(run_log) = results.succeeded + results.failed

\* the exit paths on which the counts do add up: the end of the range and
\* the stop on the first failure
AddsUpWithoutInterrupt ==
    bpc = "returned"
       => /\ results.total = SliceLen
          /\ results.succeeded + results.failed + results.skipped
                = results.total
          /\ Len(run_log) = results.succeeded + results.failed


\* -------------------------------------------------------------------
\* the closed entries before a step are still there after it, unchanged and
\* in the same order
ClosedEntriesKept ==
    /\ Len(session_data') >= Len(session_data)
    /\ SubSeq(session_data', 1, Len(session_data)) = session_data

\* a step that closes the active task appends its entry and nothing else
ClosingAppendsOne ==
    (current_task # NoTask /\ current_task' = NoTask)
       => /\ Len(session_data') = Len(session_data) + 1
          /\ Last(session_data').attempt_number = current_task.attempt_number
          /\ Last(session_data').prompts = current_task.prompts
          /\ OnDisk' = session_data'

\* without an active task no entry is added, and without an active prompt
\* no prompt is added to the active task
NothingWithoutActive ==
    /\ current_task = NoTask => session_data' = session_data
    /\ current_task' # NoTask => session_data' = session_data
    /\ (current_prompt = NoPrompt /\ current_task # NoTask /\ current_task' # NoTask)
          => Len(current_task'.prompts) <= Len(current_task.prompts)
    /\ (current_task = NoTask /\ current_task' = NoTask /\ current_prompt = NoPrompt
           /\ current_prompt' = NoPrompt)
          => session_files' = session_files

\* C39: the closed tasks of a CompletionLogger are append-only: end_task with
\* an active task appends exactly one entry, no logger call changes, removes
\* or reorders a closed entry, and end_task without an active task and
\* end_prompt without an active prompt change neither the record nor the file
C39_ClosedTasksAppendOnly ==
    [][ClosedEntriesKept /\ ClosingAppendsOne /\ NothingWithoutActive]_vars

\* a CompletionLogger used for several tasks in a row, each started with the
\* next attempt number (as runner.py 486 numbers them)
StartNextTask ==
    /\ start_task(Len(session_data) + 1)
    /\ LoggerFrame

CloseTask ==
    /\ current_task # NoTask => Len(session_data) < MaxClosedTasks
    /\ \E task_status \in LoggedStatuses : end_task(task_status)
    /\ LoggerFrame

ReusedLoggerNext ==
    \/ StartNextTask
    \/ CloseTask
    \/ StartPrompt
    \/ EndPrompt

SpecReusedLogger == LoggerInit /\ [][ReusedLoggerNext]_vars

\* two closed entries in the record and in the file, and no active task
C39_Witness ==
    /\ Len(session_data) = 2
    /\ current_task = NoTask
    /\ current_prompt = NoPrompt
    /\ OnDisk = session_data
    /\ session_data[1].task_status # session_data[2].task_status


\* -------------------------------------------------------------------
\* the login wait is over
LoginWaitOver == p1pc \in { "passed", "failed" } /\ login_elapsed > 0

\* what holds of the login wait counted in polls: at most LOGIN_TIMEOUT /
\* LOGIN_POLL polls, READY ends the wait at once with the auth state handed
\* to save_auth_state, and a wait that never saw READY ends AUTH_FAILED with
\* no completion record and agent_attempts unchanged
LoginWaitByPolls ==
    /\ login_elapsed <= LOGIN_TIMEOUT
    /\ login_elapsed % LOGIN_POLL = 0
    /\ p1pc = "login_wait" => auth_state # "ready" /\ auth_saved = "none"
    /\ auth_saved # "none" => p1pc = "passed" /\ auth_state = "ready"
    /\ (LoginWaitOver /\ p1pc = "passed") => auth_saved # "none"
    /\ (LoginWaitOver /\ p1pc = "failed")
          => /\ phase1_status = AUTH_FAILED
             /\ login_elapsed = LOGIN_TIMEOUT
             /\ auth_state # "ready"
             /\ completion_logger = 0
             /\ agent_attempts = 0
    /\ phase1_status = AUTH_FAILED => LoginWaitOver

\* C37: when the state after navigation is AUTH_REQUIRED, Phase 1 polls
\* get_state every 10 s for at most 300 s; READY ends the wait with the auth
\* state saved, and without READY within the bound the attempt fails as
\* AUTH_FAILED with no completion record and agent_attempts unchanged
C37_LoginWaitBounded ==
    /\ LoginWaitByPolls
    /\ login_clock <= LOGIN_TIMEOUT


\* -------------------------------------------------------------------
\* C34: an external shutdown request raised while an attempt runs is never
\* lost: once the signal handler has set shutdown_event the retry loop
\* starts no new attempt
C34_SignalNeverLost ==
    [][ext_signalled => total_attempts' = total_attempts]_vars

\* -------------------------------------------------------------------
\* the labels of the inner try of Phase 2 (runner.py 507-709), where the
\* guard of the attempt may be pending
InsideTry ==
    pc \in { "prompts", "archive", "cleanup", "backoff", "download", "history",
             "cloud_upload", "hold", "final_cleanup" }

\* the wall-clock deadline of the task
TaskDeadline == task_wall_start + max_sec_per_task

\* C35: with max_sec_per_task > 0 every attempt that enters Phase 2 has a
\* guard that fires no later than min(max_sec_per_attempt, the time left in
\* the budget of the task), whatever Phase 1 took
C35_GuardWithinBudget ==
    (max_sec_per_task > 0 /\ max_sec_per_attempt > 0 /\ pc = "prompts")
       => /\ guard_task \in { "pending", "fired" }
          /\ guard_task = "pending" => guard_deadline <= TaskDeadline

\* the guard there is keeps to the budget
PendingGuardWithinBudget ==
    (max_sec_per_task > 0 /\ guard_task = "pending")
       => guard_deadline <= TaskDeadline

\* -------------------------------------------------------------------
\* the guard's effects appear in this step
GuardActs == attempt_timed_out' /\ ~attempt_timed_out

\* C36: at most one guard is pending at any time, namely that of the attempt
\* whose Phase 2 is running: it is cancelled on every way out of Phase 2, a
\* new one is created only when none is pending, and only a pending guard
\* inside Phase 2 sets the timed-out flag and the shutdown signal
C36_GuardDiesWithAttempt ==
    /\ [](guard_task = "pending" => InsideTry)
    /\ [][(pc = "phase2" /\ guard_task' = "pending") => guard_task # "pending"]_vars
    /\ [][GuardActs => (guard_task = "pending" /\ InsideTry /\ shutdown_event'
                          /\ total_attempts' = total_attempts)]_vars

\* the second attempt runs under its own guard after the first has
\* ended
C36_Witness ==
    /\ total_attempts = 2
    /\ hist.passed = 2
    /\ agent_attempts = 1
    /\ guard_task = "pending"
    /\ ~attempt_timed_out
    /\ ~shutdown_event


\* ===================================================================
\* The pages of the browser context over the attempts of one run
\* (runner.py 379-394 and 146-157, browser/manager.py 143-283).  Pages
\* that the site or the user opens while an attempt runs are left out.
\* ===================================================================
\* manager.py 139-141 and 153-156: a Chrome reached over CDP keeps its first
\* context, with the pages open in it; otherwise each launch makes a browser
\* and a context of its own
PagesInit ==
    /\ cdp_mode \in BOOLEAN
    /\ ctx_pages \in (IF cdp_mode THEN 0..MaxPages ELSE {0})
    /\ own_page = "none"
    /\ gpc = "launch"
    /\ close_failed = 0
    /\ stale_todo = 0
    /\ stale_closed = 0
    /\ browser_attempts = 0
    /\ LoopIdle
    /\ NoLogger
    /\ NoAgent
    /\ NoPhase1
    /\ NoDownload
    /\ NoBatch
    /\ NoMerge

PagesFrame ==
    UNCHANGED << configVars, loopVars, completionVars, agentVars, phase1Vars,
                 downloadVars, batchVars, mergeVars, cdp_mode >>

\* manager.py 196-207 and 225-244: the context launch_browser returns holds
\* the pages left in Chrome's context (CDP) or none (a new context)
PagesAtLaunch == IF cdp_mode THEN ctx_pages ELSE 0

\* runner.py 383-388: launch_browser returns and the loop takes the list of
\* the pages of the context
LaunchContext ==
    /\ gpc = "launch"
    /\ browser_attempts < MaxLaunches
    /\ browser_attempts' = browser_attempts + 1
    /\ ctx_pages' = PagesAtLaunch
    /\ stale_todo' = PagesAtLaunch
    /\ close_failed' = 0
    /\ stale_closed' = 0
    /\ gpc' = "stale"
    /\ UNCHANGED own_page
    /\ PagesFrame

\* variant of ClosedBy: close() leaves the page open
ClosedBy_Nothing(raises) == 0

\* the pages one call of close() closes: none when it raises
ClosedBy(raises) == IF raises THEN 0 ELSE 1

\* runner.py 388-392: stale.close() for the next page of the list; an
\* exception is passed over
CloseStalePage ==
    /\ gpc = "stale"
    /\ stale_todo > 0
    /\ \E raises \in BOOLEAN :
          /\ ctx_pages' = ctx_pages - ClosedBy(raises)
          /\ close_failed' = close_failed + (IF raises THEN 1 ELSE 0)
          /\ stale_closed' = stale_closed + (IF raises THEN 0 ELSE 1)
    /\ stale_todo' = stale_todo - 1
    /\ UNCHANGED << own_page, gpc, browser_attempts >>
    /\ PagesFrame

\* runner.py 393: context.new_page() once the loop is through
NewPage ==
    /\ gpc = "stale"
    /\ stale_todo = 0
    /\ own_page' = "open"
    /\ gpc' = "work"
    /\ UNCHANGED << ctx_pages, close_failed, stale_todo, stale_closed,
                    browser_attempts >>
    /\ PagesFrame

\* navigation, login, uploads and the agent's work on the page of the
\* attempt, up to the point where the attempt gives the browser up
AttemptWorks ==
    /\ gpc = "work"
    /\ gpc' = "cleanup"
    /\ UNCHANGED << ctx_pages, own_page, close_failed, stale_todo,
                    stale_closed, browser_attempts >>
    /\ PagesFrame

\* runner.py 146-157 with manager.py 266-283: page.close(), whose exception
\* is passed over, then close_browser, which leaves a CDP context alive and
\* closes any other context with all its pages
CleanupBrowser ==
    /\ gpc = "cleanup"
    /\ \E raises \in BOOLEAN :
          ctx_pages' = IF cdp_mode THEN ctx_pages + 1 - ClosedBy(raises) ELSE 0
    /\ own_page' = "none"
    /\ gpc' = "launch"
    /\ UNCHANGED << close_failed, stale_todo, stale_closed, browser_attempts >>
    /\ PagesFrame

PagesNext ==
    \/ LaunchContext
    \/ CloseStalePage
    \/ NewPage
    \/ AttemptWorks
    \/ CleanupBrowser

SpecPages == PagesInit /\ [][PagesNext]_vars

\* the pages open in the context
OpenPages == ctx_pages + (IF own_page = "open" THEN 1 ELSE 0)

\* the attempt has its page: navigation, login and the agent's work
HasOwnPage == gpc \in { "work", "cleanup" }

Keys == { "browser", "agent_type" }

SubKeys == { "type", "headless" }

Scalars == { "claude_web", "chatgpt_web" }

NoItems == [j \in SubKeys |-> "absent"]

Absent == [is_dict |-> FALSE, scalar |-> "absent", items |-> NoItems]

Scalar(v) == [is_dict |-> FALSE, scalar |-> v, items |-> NoItems]

Mapping(items) == [is_dict |-> TRUE, scalar |-> "absent", items |-> items]

Values ==
    { Scalar(v) : v \in Scalars }
       \cup { Mapping(items) : items \in [SubKeys -> Scalars \cup {"absent"}] }

Configs == [Keys -> Values \cup { Absent }]

\* the keys a configuration sets
KeysOf(config) == { k \in Keys : config[k] # Absent }

\* the keys a mapping has
ItemsOf(items) == { j \in SubKeys : items[j] # "absent" }

\* dict.update
DictUpdate(d, u) ==
    [j \in SubKeys |-> IF j \in ItemsOf(u) THEN u[j] ELSE d[j]]

\* loader.py 58-61, batch.py 342-349: the value of a key the task sets, by
\* the value the copy of the template has for it
MergedValue(mine, theirs) ==
    IF mine.is_dict /\ theirs # Absent /\ theirs.is_dict
    THEN Mapping(DictUpdate(theirs.items, mine.items))
    ELSE mine

\* loader.py 53-63: merge_task_config(task_config, template_config)
merge_task_config(task, tpl) ==
    [k \in Keys |->
        IF k \in KeysOf(task) THEN MergedValue(task[k], tpl[k]) ELSE tpl[k]]

\* batch.py 353-354
provider_map(p) == IF p = "chatgpt" THEN "chatgpt_web" ELSE "claude_web"

\* batch.py 336-356: _merge_config(task), the same loop over self.template
\* and then agent_type set from the provider of the runner
merge_config(task, tpl, p) ==
    [merge_task_config(task, tpl) EXCEPT
        !["agent_type"] = Scalar(provider_map(p))]

\* loader.py 53-55, batch.py 336-339: the merge works on copy.deepcopy of the
\* template, so the template is what it was
TemplateAfterMerge(task, tpl) == tpl

MergeInit ==
    /\ template \in Configs
    /\ task_cfg \in Configs
    /\ runner_provider \in { "claude", "chatgpt" }
    /\ merged = "none"
    /\ mpc = "input"
    /\ LoopIdle
    /\ NoLogger
    /\ NoAgent
    /\ NoPhase1
    /\ NoDownload
    /\ NoBatch
    /\ NoPages

MergeFrame ==
    UNCHANGED << configVars, loopVars, completionVars, agentVars, phase1Vars,
                 downloadVars, batchVars, pageVars, task_cfg, runner_provider >>

MergeTaskConfig ==
    /\ mpc = "input"
    /\ merged' = merge_task_config(task_cfg, template)
    /\ template' = TemplateAfterMerge(task_cfg, template)
    /\ mpc' = "merge_task_config"
    /\ MergeFrame

MergeConfig ==
    /\ mpc = "input"
    /\ merged' = merge_config(task_cfg, template, runner_provider)
    /\ template' = TemplateAfterMerge(task_cfg, template)
    /\ mpc' = "_merge_config"
    /\ MergeFrame

MergeNext ==
    \/ MergeTaskConfig
    \/ MergeConfig

SpecMerge == MergeInit /\ [][MergeNext]_vars

\* both the task and the template have a mapping for the key
BothMappings(k) == task_cfg[k].is_dict /\ template[k].is_dict

\* the merged mapping is the template's with the entries of the task's
UpdatedOneLevel(k) ==
    /\ merged[k].is_dict
    /\ \A j \in SubKeys :
          merged[k].items[j] =
             IF j \in ItemsOf(task_cfg[k].items) THEN task_cfg[k].items[j]
             ELSE template[k].items[j]

\* the merge policy: the value of the task wins, two mappings are merged one
\* level deep, and a key of the template alone keeps its value
TaskValueWins ==
    /\ \A k \in KeysOf(task_cfg) :
          IF BothMappings(k) THEN UpdatedOneLevel(k)
          ELSE merged[k] = task_cfg[k]
    /\ \A k \in KeysOf(template) \ KeysOf(task_cfg) : merged[k] = template[k]

\* C31: the merge of a task configuration over a template has the value of
\* the task for every key the task sets (two mappings merged one level deep,
\* a non-mapping replacing a mapping outright) and the value of the template
\* for every key only the template sets, and the template is not changed
C31_MergePolicy ==
    /\ [](mpc # "input" => TaskValueWins)
    /\ [][template' = template]_vars

\* merge_task_config of config/loader.py keeps to the policy, and its result
\* sets the keys of the two configurations and no other
LoaderKeepsPolicy ==
    /\ [](mpc = "merge_task_config"
             => /\ TaskValueWins
                /\ KeysOf(merged) = KeysOf(task_cfg) \cup KeysOf(template))
    /\ [][template' = template]_vars


\* ===================================================================
\* Properties of ClaudeWebAgent.wait_for_response
\* ===================================================================
\* wait_for_response of ClaudeWebAgent returns in this step
ClaudeWaitReturns ==
    provider = "claude_web" /\ apc = "c_wait" /\ apc' = "wfr_return"

\* a return with a response: the start was seen (RUNNING, or more than one
\* response block) and the last two results of get_state were READY
ResponseAfterStart ==
    (ClaudeWaitReturns /\ response' # None)
       => (saw_running' /\ ready_samples' = 2 /\ outcome' = "complete")

\* without the start seen the wait goes on, and its only returns are None
NoneWithoutStart ==
    (ClaudeWaitReturns /\ ~saw_running')
       => (response' = None /\ outcome' \in {"timeout", "shutdown", "rate_limited"})

\* once the time waited has reached max_wait_per_prompt the wait returns
\* None, and it does not return for the time before
TimeoutReturnsNone ==
    /\ (apc = "c_wait" /\ ~(elapsed < max_wait_per_prompt) /\ apc' # apc)
          => (response' = None /\ outcome' = "timeout")
    /\ (ClaudeWaitReturns /\ outcome' = "timeout")
          => ~(elapsed < max_wait_per_prompt)

\* C40: wait_for_response of ClaudeWebAgent returns a response only with
\* the start of the generation seen (a RUNNING state, or more than one
\* response block) and after two READY results of get_state in a row; while
\* the page is READY with no start seen the wait goes on until the time
\* waited reaches max_wait_per_prompt, where None is returned
C40_ClaudeWaitNeedsStart ==
    [][ResponseAfterStart /\ NoneWithoutStart /\ TimeoutReturnsNone]_vars

\* a response returned after the start was seen and two READY results
C40_Witness ==
    /\ provider = "claude_web"
    /\ apc = "wfr_return"
    /\ outcome = "complete"
    /\ response # None
    /\ saw_running
    /\ ready_samples = 2

\* the wait ran out with the page READY and no start seen
TimedOutWithoutStart ==
    /\ provider = "claude_web"
    /\ apc = "wfr_return"
    /\ outcome = "timeout"
    /\ ~saw_running
    /\ ready_samples = 2
    /\ response = None

====
